---- MODULE Spec2Model ----
(***************************************************************************)
(* A model of gosentry: the circuit breaker (policies/circuit_breaker.go)  *)
(* and the token-bucket rate limiter (policies/rate_limit.go), each shared *)
(* by several concurrent callers; one call of the Retry policy's handler,  *)
(* of the Timeout policy's handler (policies/timeout.go) with its          *)
(* goroutine, and of Execute over a list of policies.                      *)
(*                                                                         *)
(* In the circuit breaker and Timeout, time is counted in whole seconds: a  *)
(* time.Time is a natural number, a time.Duration an integer.  The rate    *)
(* limiter's clock counts ticks of 100 microseconds, and its float64       *)
(* values (the rate, the elapsed seconds, the tokens) are kept as sign,    *)
(* 53-bit significand and exponent, every operation rounded to the nearest *)
(* float64.  Whether tokens += elapsed * opts.Rate is one fused operation  *)
(* or a product and a sum is the build's choice, made when a limiter is    *)
(* constructed.  Retry's delays are int64 nanoseconds, kept as 8 bytes.    *)
(***************************************************************************)
EXTENDS Integers, Sequences, FiniteSets, TLC

\* ------------------------------------------------------------------ bounds

\* Calls of the circuit breaker started in one behaviour (all callers together).
MaxCalls == 4
\* Calls of the rate limiter started in one behaviour (all callers together).
MaxRLCalls == 5
\* The largest MaxAttempts a Retry policy is constructed with: enough for the
\* shift 1 << attempt to pass the width of an int64.
MaxRetryAttempts == 66
\* The last reading of the injected clock.
MaxClock == 2
\* The last reading of a limiter's injected clock, in ticks of 100 microseconds:
\* 3 seconds.
MaxRLClock == 30000
\* The longest list of policies Execute is called with.
MaxPolicies == 3
\* How many times one call of a policy's handler calls next, at most.
MaxDelegations == 2
\* The last reading of the wall clock in a call of Timeout's handler: past the
\* default deadline of a call made at the start.
MaxTimeoutClock == 6

\* The goroutines calling the wrapped handler concurrently.
Callers == {"g1", "g2", "g3"}
\* sync.Mutex: the zero value is unlocked.
NoOne == "unlocked"

\* ------------------------------------------------- errors and outcomes

NilErr == "nil"
\* context.Canceled, what ctx.Err() returns once the context is cancelled.
Canceled == "context canceled"
\* context.DeadlineExceeded, the error of a context whose deadline has passed.
DeadlineExceeded == "context deadline exceeded"
\* What ctx.Err() returns once the caller's context is done: it was cancelled
\* or its deadline passed.
ContextErrors == {Canceled, DeadlineExceeded}
ErrCircuitOpen == "circuit breaker is open"
ErrCircuitHalfOpenBusy == "circuit breaker is half-open and busy"
ErrRateLimitExceeded == "rate limit exceeded"
\* Two errors of the wrapped operation: a custom ShouldTrip accepts the first only.
TripErr == "trip"
IgnoredErr == "ignore"

\* What the wrapped operation (next) may return: (result, err).
Outcomes ==
    { [result |-> "ok", err |-> NilErr],
      [result |-> "nil", err |-> TripErr],
      [result |-> "nil", err |-> IgnoredErr] }

\* next(ctx) was not invoked.
NotInvoked == [result |-> "none", err |-> "none"]

\* The last step returned nothing to any caller.
NoReturn ==
    [caller |-> "none", result |-> "none", err |-> "none", inner |-> NotInvoked,
     entryCanceled |-> FALSE]

\* return nil, e: a policy's own return to caller p, next(ctx) not invoked;
\* atEntry: it is the wrapper's first check that found the context cancelled.
Reject(p, e, atEntry) ==
    [caller |-> p, result |-> "nil", err |-> e, inner |-> NotInvoked,
     entryCanceled |-> atEntry]

\* return result, err: what next(ctx) returned (inner), handed to caller p.
Forward(p, o) ==
    [caller |-> p, result |-> o.result, err |-> o.err, inner |-> o,
     entryCanceled |-> FALSE]

\* ------------------------------------------------------ circuit breaker

CircuitClosed == "closed"
CircuitOpen == "open"
CircuitHalfOpen == "half-open"

DefaultFailureThreshold == 5
DefaultSuccessThreshold == 1
DefaultOpenTimeout == 30

\* DefaultCircuitBreakerOptions()
DefaultCircuitBreakerOptions ==
    [ FailureThreshold |-> DefaultFailureThreshold,
      SuccessThreshold |-> DefaultSuccessThreshold,
      OpenTimeout |-> DefaultOpenTimeout ]

\* applyCircuitBreakerDefaults: a zero field takes its default; ShouldTrip is
\* "nil" (unset: any non-nil error trips) or "custom" (only TripErr trips).
applyCircuitBreakerDefaults(options) ==
    [ FailureThreshold |->
          IF options.FailureThreshold = 0
          THEN DefaultCircuitBreakerOptions.FailureThreshold
          ELSE options.FailureThreshold,
      SuccessThreshold |->
          IF options.SuccessThreshold = 0
          THEN DefaultCircuitBreakerOptions.SuccessThreshold
          ELSE options.SuccessThreshold,
      OpenTimeout |->
          IF options.OpenTimeout = 0
          THEN DefaultCircuitBreakerOptions.OpenTimeout
          ELSE options.OpenTimeout,
      ShouldTrip |-> IF options.ShouldTrip = "nil" THEN "any" ELSE options.ShouldTrip ]

\* The options the callers of the model construct a breaker with.
CircuitBreakerOptions ==
    [ FailureThreshold : {1, 2},
      SuccessThreshold : {0, 2},
      OpenTimeout : {1, 2},
      ShouldTrip : {"nil", "custom"} ]

\* ------------------------------------------------- time.Duration (int64)

\* A time.Duration is an int64 count of nanoseconds.  It is kept as its bytes
\* in two's complement, least significant first, so that sums and products
\* wrap as they do in Go.  The operators work on words of any number of bytes.
Int64Bytes == 8

\* x + y + c from byte i on, the carry c coming from the bytes below.
RECURSIVE WAddFrom(_, _, _, _)
WAddFrom(x, y, i, c) ==
    IF i > Len(x) THEN << >>
    ELSE <<(x[i] + y[i] + c) % 256>> \o WAddFrom(x, y, i + 1, (x[i] + y[i] + c) \div 256)

\* x + y, the low Len(x) bytes.
WAdd(x, y) == WAddFrom(x, y, 1, 0)

\* ^x
WNot(x) == [i \in 1..Len(x) |-> 255 - x[i]]

\* x * m + c from byte i on, for a number 0 <= m < 2^22.
RECURSIVE WScaleFrom(_, _, _, _)
WScaleFrom(x, m, i, c) ==
    IF i > Len(x) THEN << >>
    ELSE <<(x[i] * m + c) % 256>> \o WScaleFrom(x, m, i + 1, (x[i] * m + c) \div 256)

\* -x
WNeg(x) == WAddFrom(WNot(x), [i \in 1..Len(x) |-> 0], 1, 1)

\* The integer n (-2^31 < n < 2^31) as a word of w bytes.
Word(n, w) ==
    LET m == IF n < 0 THEN -n ELSE n
        mag == [i \in 1..w |-> IF i <= 3 THEN (m \div 256 ^ (i - 1)) % 256
                               ELSE IF i = 4 THEN m \div 256 ^ 3
                               ELSE 0]
    IN  IF n < 0 THEN WNeg(mag) ELSE mag

\* x - y
WSub(x, y) == WAdd(x, WNeg(y))

\* x < 0
IsNeg(x) == x[Len(x)] >= 128

\* x * 256^k, the low Len(x) bytes.
WShiftBytes(x, k) == [i \in 1..Len(x) |-> IF i > k THEN x[i - k] ELSE 0]

\* x * (y's bytes from i on), the low Len(x) bytes.
RECURSIVE WMulFrom(_, _, _)
WMulFrom(x, y, i) ==
    IF i > Len(y) THEN [j \in 1..Len(x) |-> 0]
    ELSE IF y[i] = 0 THEN WMulFrom(x, y, i + 1)
    ELSE WAdd(WScaleFrom(WShiftBytes(x, i - 1), y[i], 1, 0), WMulFrom(x, y, i + 1))

\* x * y, the low Len(x) bytes.
WMul(x, y) == WMulFrom(x, y, 1)

\* 1 << s in a word of w bytes: zero when s is 8*w or more.
WBit(s, w) ==
    [i \in 1..w |-> IF i = s \div 8 + 1 THEN 2 ^ (s % 8) ELSE 0]

\* x < y as unsigned numbers, comparing from byte i down.
RECURSIVE WBelowFrom(_, _, _)
WBelowFrom(x, y, i) ==
    IF i = 0 THEN FALSE
    ELSE IF x[i] # y[i] THEN x[i] < y[i]
    ELSE WBelowFrom(x, y, i - 1)

\* x < y, as signed numbers.
WLess(x, y) ==
    IF IsNeg(x) # IsNeg(y) THEN IsNeg(x) ELSE WBelowFrom(x, y, Len(x))

\* x / 2, rounded toward zero.
WHalf(x) ==
    LET n == Len(x)
        shr(v) == [i \in 1..n |->
                      v[i] \div 2 + (IF i < n THEN (v[i + 1] % 2) * 128 ELSE 0)]
    IN  IF IsNeg(x) THEN WNeg(shr(WNeg(x))) ELSE shr(x)

\* The same number in a word of w >= Len(x) bytes.
WExtend(x, w) ==
    [i \in 1..w |-> IF i <= Len(x) THEN x[i] ELSE IF IsNeg(x) THEN 255 ELSE 0]

\* time.Duration(n), for an integer n the model can hold.
Duration(n) == Word(n, Int64Bytes)

Millisecond == Duration(1000000)
Second == Duration(1000000000)

\* ------------------------------------------------------------- float64

\* A natural number of any size is kept as its digits in base Limb, least
\* significant first, with no leading zero digit: zero is << >>.  A product of
\* two digits fits in the model's integers.  The arithmetic is written as
\* functions, whose arguments are values when the body is evaluated.
\* The bits of one digit.
LimbBits == 14

Limb == 2 ^ LimbBits

\* The digits of a natural number.
Digits == Seq(0 .. Limb - 1)

\* x without its leading zero digits.
NTrim[x \in Digits] ==
    IF x = << >> THEN x
    ELSE IF x[Len(x)] = 0 THEN NTrim[SubSeq(x, 1, Len(x) - 1)]
    ELSE x

\* The integer n, 0 <= n < 2^31.
NFromInt[n \in Nat] == NTrim[<<n % Limb, (n \div Limb) % Limb, n \div (Limb * Limb)>>]

\* The digit of x at position i.
NDigit(x, i) == IF i <= Len(x) THEN x[i] ELSE 0

\* x + y + c from digit i on.
NAddFrom[x \in Digits, y \in Digits, i \in Nat, c \in Nat] ==
    IF i > Len(x) /\ i > Len(y) THEN (IF c = 0 THEN << >> ELSE <<c>>)
    ELSE LET s == NDigit(x, i) + NDigit(y, i) + c
         IN  <<s % Limb>> \o NAddFrom[x, y, i + 1, s \div Limb]

\* x + y
NAdd[x \in Digits, y \in Digits] == NAddFrom[x, y, 1, 0]

\* x - y - b from digit i on, for x >= y.
NSubFrom[x \in Digits, y \in Digits, i \in Nat, b \in Nat] ==
    IF i > Len(x) THEN << >>
    ELSE LET d == x[i] - NDigit(y, i) - b
         IN  <<IF d < 0 THEN d + Limb ELSE d>>
                \o NSubFrom[x, y, i + 1, IF d < 0 THEN 1 ELSE 0]

\* x - y, for x >= y.
NSub[x \in Digits, y \in Digits] == NTrim[NSubFrom[x, y, 1, 0]]

\* x < y for numbers of the same length, comparing from digit i down.
NLessFrom[x \in Digits, y \in Digits, i \in Nat] ==
    IF i = 0 THEN FALSE
    ELSE IF x[i] # y[i] THEN x[i] < y[i]
    ELSE NLessFrom[x, y, i - 1]

\* x < y
NLess[x \in Digits, y \in Digits] ==
    IF Len(x) # Len(y) THEN Len(x) < Len(y) ELSE NLessFrom[x, y, Len(x)]

\* x * k + c from digit i on, for 0 < k < 2^16.
NScaleFrom[x \in Digits, k \in Nat, i \in Nat, c \in Nat] ==
    IF i > Len(x) THEN (IF c = 0 THEN << >> ELSE <<c>>)
    ELSE LET s == x[i] * k + c
         IN  <<s % Limb>> \o NScaleFrom[x, k, i + 1, s \div Limb]

\* x * k, for 0 <= k < 2^16.
NScale[x \in Digits, k \in Nat] == IF k = 0 THEN << >> ELSE NScaleFrom[x, k, 1, 0]

\* x * Limb^n
NShiftLimbs[x \in Digits, n \in Nat] == IF x = << >> THEN x ELSE [i \in 1..n |-> 0] \o x

\* x * 2^s
NShl[x \in Digits, s \in Nat] ==
    NShiftLimbs[NScale[x, 2 ^ (s % LimbBits)], s \div LimbBits]

\* x without its first n digits, divided by r, a power of 2 below Limb, and
\* rounded down.
NShrDigits[y \in Digits, r \in Nat] ==
    NTrim[[i \in 1..Len(y) |-> y[i] \div r + (NDigit(y, i + 1) % r) * (Limb \div r)]]

\* x / 2^s, rounded down.
NShr[x \in Digits, s \in Nat] ==
    NShrDigits[IF s \div LimbBits >= Len(x) THEN << >>
               ELSE SubSeq(x, s \div LimbBits + 1, Len(x)),
               2 ^ (s % LimbBits)]

\* x * (y's digits from i on)
NMulFrom[x \in Digits, y \in Digits, i \in Nat] ==
    IF i > Len(y) THEN << >>
    ELSE NAdd[NShiftLimbs[NScale[x, y[i]], i - 1], NMulFrom[x, y, i + 1]]

\* x * y
NMul[x \in Digits, y \in Digits] == NMulFrom[x, y, 1]

\* The number of bits of the integer n >= 0.
IntBitLen[n \in Nat] == IF n = 0 THEN 0 ELSE 1 + IntBitLen[n \div 2]

\* The number of bits of x.
NBitLen[x \in Digits] ==
    IF x = << >> THEN 0 ELSE LimbBits * (Len(x) - 1) + IntBitLen[x[Len(x)]]

\* x as an integer, for x < 2^31.
NToInt[x \in Digits] == NDigit(x, 1) + NDigit(x, 2) * Limb + NDigit(x, 3) * Limb * Limb

\* A float64 is kept as a sign, a significand m and an exponent e: the number
\* m * 2^e, negated when neg, with m of exactly MantissaBits bits, or zero
\* (m = << >>, e = 0, never negative: the limiter's sums and products do not
\* produce -0).  Every operation rounds its exact result to the nearest
\* float64, ties to even, as the hardware does.  Exponents are unbounded: the
\* limiter's values are far from float64's overflow and subnormal ranges.
MantissaBits == 53

Float64 == [neg : BOOLEAN, m : Digits, e : Int]

\* +0
FZero == [neg |-> FALSE, m |-> << >>, e |-> 0]

\* neg, q1 and e as a float64: a q1 of one bit too many, the carry of a
\* rounding up, loses its last bit, which is 0.
FNormal[neg \in BOOLEAN, q1 \in Digits, e \in Int] ==
    IF NBitLen[q1] > MantissaBits
    THEN [neg |-> neg, m |-> NShr[q1, 1], e |-> e + 1]
    ELSE [neg |-> neg, m |-> q1, e |-> e]

\* Round to nearest, ties to even: up when the bits cut off, r, are above
\* half a unit in the last place, or are the half and the kept bits are odd
\* or something more was left.
RoundsUp[r \in Digits, half \in Digits, odd \in BOOLEAN] ==
    NLess[half, r] \/ (r = half /\ odd)

\* M cut to its first MantissaBits bits q, s bits being cut off.
FRoundCut[neg \in BOOLEAN, M \in Digits, e \in Int, sticky \in BOOLEAN, s \in Nat, q \in Digits] ==
    FNormal[neg,
            IF RoundsUp[NSub[M, NShl[q, s]], NShl[<<1>>, s - 1], sticky \/ q[1] % 2 = 1]
            THEN NAdd[q, <<1>>] ELSE q,
            e + s]

\* M, which has s bits more than MantissaBits, as a significand.
FRoundBits[neg \in BOOLEAN, M \in Digits, e \in Int, sticky \in BOOLEAN, s \in Int] ==
    IF s <= 0 THEN [neg |-> neg, m |-> NShl[M, -s], e |-> e + s]
    ELSE FRoundCut[neg, M, e, sticky, s, NShr[M, s]]

\* The float64 nearest to M * 2^e (negated when neg); sticky: the exact value
\* is above M * 2^e by less than 2^e.
FRound[neg \in BOOLEAN, M \in Digits, e \in Int, sticky \in BOOLEAN] ==
    IF M = << >> THEN FZero
    ELSE FRoundBits[neg, M, e, sticky, NBitLen[M] - MantissaBits]

\* float64(n), for an integer -2^31 < n < 2^31.
FFromInt[n \in Int] == FRound[n < 0, NFromInt[IF n < 0 THEN -n ELSE n], 0, FALSE]

\* -a
FNeg[a \in Float64] == IF a.m = << >> THEN a ELSE [a EXCEPT !.neg = ~a.neg]

\* a * b
FMul[a \in Float64, b \in Float64] ==
    IF a.m = << >> \/ b.m = << >> THEN FZero
    ELSE FRound[a.neg # b.neg, NMul[a.m, b.m], a.e + b.e, FALSE]

\* A * 2^e + B * 2^e or A * 2^e - B * 2^e, for A >= B, with the sign neg.
FAddAligned[neg \in BOOLEAN, A \in Digits, B \in Digits, e \in Int, same \in BOOLEAN] ==
    FRound[neg, IF same THEN NAdd[A, B] ELSE NSub[A, B], e, FALSE]

\* a + b, for |a| >= |b| > 0.  A b below an eighth of a's last place leaves a.
FAddOrdered[a \in Float64, b \in Float64] ==
    IF a.e - b.e > MantissaBits + 2 THEN a
    ELSE FAddAligned[a.neg, NShl[a.m, a.e - b.e], b.m, b.e, a.neg = b.neg]

\* |a| < |b|
FBelow[a \in Float64, b \in Float64] ==
    IF b.m = << >> THEN FALSE
    ELSE IF a.m = << >> THEN TRUE
    ELSE IF a.e # b.e THEN a.e < b.e
    ELSE NLess[a.m, b.m]

\* a + b
FAdd[a \in Float64, b \in Float64] ==
    IF a.m = << >> THEN b
    ELSE IF b.m = << >> THEN a
    ELSE IF FBelow[a, b] THEN FAddOrdered[b, a]
    ELSE FAddOrdered[a, b]

\* a - b
FSub[a \in Float64, b \in Float64] == FAdd[a, FNeg[b]]

\* P * 2^e, with the sign pneg, plus C * 2^e, with the sign cneg: the exact
\* sum, rounded once.
FFmaAligned[pneg \in BOOLEAN, P \in Digits, cneg \in BOOLEAN, C \in Digits, e \in Int] ==
    IF pneg = cneg THEN FRound[pneg, NAdd[P, C], e, FALSE]
    ELSE IF NLess[P, C] THEN FRound[cneg, NSub[C, P], e, FALSE]
    ELSE FRound[pneg, NSub[P, C], e, FALSE]

\* a * b + c as one operation: the exact product is added to c and the sum
\* is rounded, once.
FFma[a \in Float64, b \in Float64, c \in Float64] ==
    IF a.m = << >> \/ b.m = << >> THEN c
    ELSE IF c.m = << >> THEN FMul[a, b]
    ELSE IF a.e + b.e <= c.e
    THEN FFmaAligned[a.neg # b.neg, NMul[a.m, b.m], c.neg,
                     NShl[c.m, c.e - (a.e + b.e)], a.e + b.e]
    ELSE FFmaAligned[a.neg # b.neg, NShl[NMul[a.m, b.m], (a.e + b.e) - c.e], c.neg,
                     c.m, c.e]

\* a < b
FLess[a \in Float64, b \in Float64] ==
    IF a.neg # b.neg THEN a.neg
    ELSE IF a.neg THEN FBelow[b, a]
    ELSE FBelow[a, b]

\* a <= b
FLessEq[a \in Float64, b \in Float64] == ~FLess[b, a]

\* The next k bits of r / d (0 <= r < d < 2^30) after the bits q: the digit
\* and the remainder.
DivDigit[r \in Nat, d \in Nat, k \in Nat, q \in Nat] ==
    IF k = 0 THEN [q |-> q, r |-> r]
    ELSE IF 2 * r >= d THEN DivDigit[2 * r - d, d, k - 1, 2 * q + 1]
    ELSE DivDigit[2 * r, d, k - 1, 2 * q]

\* The digits after the point of r / d from the n-th down to the first, least
\* significant first, after the digits q, and the remainder left.
DivDigits[r \in Nat, d \in Nat, n \in Nat, q \in Digits] ==
    IF n = 0 THEN [q |-> q, r |-> r]
    ELSE DivDigits[DivDigit[r, d, LimbBits, 0].r, d, n - 1,
                   <<DivDigit[r, d, LimbBits, 0].q>> \o q]

\* The digits after the point a quotient is computed to before it is rounded.
QuotientDigits == 7

\* The whole part and the digits after the point of a quotient, rounded.
FDivRound[neg \in BOOLEAN, whole \in Digits, frac \in [q : Digits, r : Nat]] ==
    FRound[neg, NTrim[frac.q \o whole], -(QuotientDigits * LimbBits), frac.r # 0]

\* a / d for a >= 0, negated when neg.
FDivAbs[neg \in BOOLEAN, a \in Nat, d \in Nat] ==
    FDivRound[neg, NFromInt[a \div d], DivDigits[a % d, d, QuotientDigits, << >>]]

\* float64(n) / float64(d), for integers -2^30 < n < 2^30 and 0 < d < 2^30:
\* the quotient to QuotientDigits digits after the point and whether anything
\* is left, rounded.
FDivInt[n \in Int, d \in Nat] == FDivAbs[n < 0, IF n < 0 THEN -n ELSE n, d]

\* The largest integer not above a, for 0 <= a < 2^31.
FFloor[a \in Float64] ==
    IF a.m = << >> THEN 0
    ELSE IF a.e >= 0 THEN NToInt[NShl[a.m, a.e]]
    ELSE NToInt[NShr[a.m, -a.e]]

\* ---------------------------------------------------------- rate limiter

DefaultRate == 10
DefaultBurst == 10

\* DefaultRateLimitOptions(): Rate is a float64, tokens per second.
DefaultRateLimitOptions ==
    [ Rate |-> FFromInt[DefaultRate], Burst |-> DefaultBurst ]

\* applyRateLimitDefaults
applyRateLimitDefaults(options) ==
    [ Rate |-> IF FLessEq[options.Rate, FZero] THEN DefaultRateLimitOptions.Rate
               ELSE options.Rate,
      Burst |-> IF options.Burst <= 0 THEN DefaultRateLimitOptions.Burst ELSE options.Burst ]

\* The options the callers of the model construct a limiter with: the rates 0
\* (unset), 0.6103515625 and 1.0/3.0, each the nearest float64.
RateLimitOptions ==
    [ Rate : { FZero, FDivInt[625, 1024], FDivInt[1, 3] },
      Burst : {0, 1, 2} ]

\* The limiter's clock counts ticks of 100 microseconds: a time.Time is a
\* number of ticks, a time.Duration an integer number of them.
NanosPerTick == 10 ^ 5
TicksPerSecond == 10 ^ 4

\* The steps the injected clock of a limiter advances by: 1.6384s, which is
\* 1/0.6103515625 seconds, and 3s.
RLClockSteps == {16384, 3 * TicksPerSecond}

\* The readings the injected clock of a limiter can return.
RLClockReadings ==
    {t \in {0} \cup RLClockSteps \cup {x + y : x \in RLClockSteps, y \in RLClockSteps} :
        t <= MaxRLClock}

\* Duration.Seconds(): sec := d / Second; nsec := d % Second;
\* float64(sec) + float64(nsec)/1e9, the quotient and the remainder taking
\* the sign of d.
Seconds(d) ==
    LET a == IF d < 0 THEN -d ELSE d
        sgn == IF d < 0 THEN -1 ELSE 1
        sec == sgn * (a \div TicksPerSecond)
        nsec == sgn * ((a % TicksPerSecond) * NanosPerTick)
    IN  FAdd[FFromInt[sec], FDivInt[nsec, 10 ^ 9]]

\* Seconds() of every difference of two readings of the clock.
SecondsOf == [d \in {a - b : a \in RLClockReadings, b \in RLClockReadings} |-> Seconds(d)]

\* ----------------------------------------------------------------- retry

BackoffFixed == "fixed"
BackoffLinear == "linear"
BackoffExponential == "exponential"

DefaultMaxAttempts == 3

\* DefaultRetryOptions(): 3 attempts, 100ms, 5s, exponential, jitter.
DefaultRetryOptions ==
    [ MaxAttempts |-> DefaultMaxAttempts,
      InitialDelay |-> WMul(Duration(100), Millisecond),
      MaxDelay |-> WMul(Duration(5), Second),
      Backoff |-> BackoffExponential,
      Jitter |-> TRUE ]

\* applyDefaults: a zero field takes its default; Jitter is left as given.
applyDefaults(options) ==
    [ MaxAttempts |-> IF options.MaxAttempts = 0 THEN DefaultRetryOptions.MaxAttempts
                      ELSE options.MaxAttempts,
      InitialDelay |-> IF options.InitialDelay = Duration(0)
                       THEN DefaultRetryOptions.InitialDelay
                       ELSE options.InitialDelay,
      MaxDelay |-> IF options.MaxDelay = Duration(0) THEN DefaultRetryOptions.MaxDelay
                   ELSE options.MaxDelay,
      Backoff |-> IF options.Backoff = "" THEN DefaultRetryOptions.Backoff
                  ELSE options.Backoff,
      Jitter |-> options.Jitter ]

\* The durations from w up to, not including, n.
RECURSIVE DurationsFrom(_, _)
DurationsFrom(w, n) ==
    IF ~WLess(w, n) THEN {}
    ELSE {w} \cup DurationsFrom(WAdd(w, Duration(1)), n)

\* rand.Int63n(n): it panics when n <= 0, else returns any value of [0, n).
Int63n(n) ==
    IF ~WLess(Duration(0), n)
    THEN {[panic |-> TRUE, value |-> Duration(0)]}
    ELSE {[panic |-> FALSE, value |-> v] : v \in DurationsFrom(Duration(0), n)}

\* computeDelay, the switch on opts.Backoff.
backoffDelay(attempt, o) ==
    CASE o.Backoff = BackoffFixed -> o.InitialDelay
      [] o.Backoff = BackoffLinear ->
            WMul(o.InitialDelay, Duration(attempt + 1))
      [] o.Backoff = BackoffExponential ->
            WMul(o.InitialDelay, WBit(attempt, Int64Bytes))
      [] OTHER -> o.InitialDelay

\* computeDelay: if delay > opts.MaxDelay { delay = opts.MaxDelay }
clampDelay(delay, o) == IF WLess(o.MaxDelay, delay) THEN o.MaxDelay ELSE delay

\* computeDelay: what it may return, or that it panics in rand.Int63n.
computeDelay(attempt, o) ==
    LET delay == backoffDelay(attempt, o)
    IN  IF o.Jitter
        THEN {[panic |-> j.panic,
               delay |-> IF j.panic THEN Duration(0)
                         ELSE clampDelay(WAdd(delay, j.value), o)] :
                 j \in Int63n(WHalf(delay))}
        ELSE {[panic |-> FALSE, delay |-> clampDelay(delay, o)]}

\* The options the callers of the model construct a Retry policy with.  Jitter
\* is drawn with the delays whose range delay/2 is small enough for every value
\* rand.Int63n can return to be a step of the model: an InitialDelay of 1ns or
\* 10ns and at most three attempts.
RetryOptions ==
    { o \in [ MaxAttempts : {-1, 0, 1, 2, MaxRetryAttempts},
              InitialDelay : {Duration(0), Duration(1), Duration(10)},
              MaxDelay : {Duration(0), Duration(25)},
              Backoff : {"", BackoffFixed, BackoffLinear, BackoffExponential},
              Jitter : BOOLEAN ] :
        o.Jitter => (o.MaxAttempts # MaxRetryAttempts /\ o.InitialDelay # Duration(0)) }

\* What the k-th invocation of the wrapped operation may return: a result of
\* its own, or an error of its own, with or without a result beside it.
OpResult(k) == "result " \o ToString(k)
OpErr(k) == "error " \o ToString(k)
OpOutcomes(k) ==
    { [result |-> OpResult(k), err |-> NilErr],
      [result |-> "nil", err |-> OpErr(k)],
      [result |-> OpResult(k), err |-> OpErr(k)] }

\* --------------------------------------------------------------- timeout

\* DefaultTimeoutOptions: 5 * time.Second, in seconds.
DefaultTimeoutDuration == 5

DefaultTimeoutOptions == [Duration |-> DefaultTimeoutDuration]

applyTimeoutDefaults(options) ==
    [ Duration |-> IF options.Duration = 0 THEN DefaultTimeoutOptions.Duration
                   ELSE options.Duration ]

\* The options a Timeout policy is constructed with: disabled, unset, 1s, 2s.
TimeoutOptions == [Duration : {-1, 0, 1, 2}]

\* make(chan outcome, 1): the capacity of done.
DoneCap == 1

\* No child context: context.WithTimeout has not been called.
NoContext == [deadline |-> -1, err |-> "none"]

\* -------------------------------------------------------------- state

VARIABLES
    wrapped,        \* the policy the shared handler was wrapped with
    opts,           \* circuitBreaker.opts, after applyCircuitBreakerDefaults
    rlOpts,         \* RateLimit's opts, after applyRateLimitDefaults
    fused,          \* the build compiles tokens += elapsed * opts.Rate to one operation
    clock,          \* what opts.Now() returns
    mu,             \* the policy's sync.Mutex: its holder, or NoOne
    state,          \* circuitBreaker.state
    openedAt,       \* circuitBreaker.openedAt
    failures,       \* circuitBreaker.failures
    halfSuccess,    \* circuitBreaker.halfSuccess
    halfInFlight,   \* circuitBreaker.halfInFlight
    observed,       \* the calls made to opts.OnStateChange, in order
    tokens,         \* RateLimit's tokens, a float64
    lastAt,         \* RateLimit's lastAt
    admissions,     \* the decisions allow() made, in order
    pc,             \* where each caller is in the wrapper
    now,            \* beforeCall's local now
    trial,          \* the caller's call was admitted as a half-open trial
    returned,       \* what the last step returned to its caller, if it returned
    streak,         \* qualifying failures recorded in Closed since the last success
    calls,          \* calls started so far
    rOpts,          \* Retry's opts, after applyDefaults
    ctxErr,         \* ctx.Err() of the context Retry's handler is called with
    rpc,            \* where the call of Retry's handler is
    attempt,        \* Retry's loop variable
    lastErr,        \* Retry's lastErr
    timer,          \* the delay of the timer Retry is waiting on
    invoked,        \* how many times Retry has invoked next
    lastOutcome,    \* what the last invocation of next returned
    cancelPoint,    \* where the call of Retry's handler was when ctx was cancelled
    tOpts,          \* Timeout's opts, after applyTimeoutDefaults
    timeoutCtx,     \* Timeout's child context: its deadline and its Err()
    tpc,            \* where the call of Timeout's handler is
    gpc,            \* where the goroutine started by Timeout's handler is
    done,           \* the channel done: the outcomes sent and not yet received
    gout,           \* the goroutine's res, err
    first,          \* which came first: next returned, or timeoutCtx was done
    policies,       \* Execute's policies ...Policy
    execH,          \* Execute's h: the policies wrapped around handler, outermost first
    execI,          \* Execute's loop variable i (counted from 1)
    epc,            \* where the call of Execute is
    stack,          \* the handlers being executed, the outermost first
    entered,        \* the policies whose handler has been called, in order of first call
    pending,        \* what the handler that just returned handed to its caller
    opErrs          \* the errors the operation under Retry and the breaker has returned

cbVars == <<state, openedAt, failures, halfSuccess, halfInFlight>>
rlVars == <<tokens, lastAt>>
retryVars == <<rOpts, ctxErr, rpc, attempt, lastErr, timer, invoked, lastOutcome,
               cancelPoint>>
\* Retry's own state: what a call of another policy's handler leaves alone.
retryLoopVars == <<rOpts, rpc, attempt, lastErr, timer, cancelPoint>>
timeoutVars == <<tOpts, timeoutCtx, tpc, gpc, done, gout, first>>
executeVars == <<policies, execH, execI, epc, stack, entered, pending>>
\* The state of the circuit breaker, the rate limiter and their callers.
sharedVars == <<opts, rlOpts, clock, mu, state, openedAt, failures, halfSuccess,
                halfInFlight, observed, tokens, lastAt, admissions, pc, now, trial,
                streak, calls>>
vars == <<wrapped, opts, rlOpts, fused, clock, mu, state, openedAt, failures, halfSuccess,
          halfInFlight, observed, tokens, lastAt, admissions, pc, now, trial,
          returned, streak, calls, rOpts, ctxErr, rpc, attempt, lastErr, timer,
          invoked, lastOutcome, cancelPoint, tOpts, timeoutCtx, tpc, gpc, done, gout,
          first, policies, execH, execI, epc, stack, entered, pending, opErrs>>

\* opts.Now(): the injected clock.
Now == clock

\* The breaker's lock and lock-protected fields, and the observer's log, as one value.
CB ==
    [ mu |-> mu, state |-> state, openedAt |-> openedAt, failures |-> failures,
      halfSuccess |-> halfSuccess, halfInFlight |-> halfInFlight,
      observed |-> observed ]

\* opts.ShouldTrip(err)
ShouldTrip(err) ==
    IF opts.ShouldTrip = "any" THEN err # NilErr ELSE err = TripErr

\* ------------------------------------------- circuit breaker: the code

\* transitionLocked reading c.state for the report after assigning it.
transitionLocked_ReportsAfterAssignment(c, to) ==
    IF c.state = to
    THEN c
    ELSE [c EXCEPT !.state = to,
                   !.observed = Append(@, [from |-> to, to |-> to, holder |-> c.mu])]

\* transitionLocked: a change of state, reported to opts.OnStateChange.
transitionLocked(c, to) ==
    IF c.state = to
    THEN c
    ELSE [c EXCEPT !.state = to,
                   !.observed = Append(@, [from |-> c.state, to |-> to, holder |-> c.mu])]

\* openLocked keeping the counters: only the trial flag and openedAt are set.
openLocked_KeepsCounters(c) ==
    transitionLocked([c EXCEPT !.halfInFlight = FALSE, !.openedAt = Now], CircuitOpen)

\* openLocked
openLocked(c) ==
    transitionLocked(
        [c EXCEPT !.failures = 0, !.halfSuccess = 0, !.halfInFlight = FALSE,
                  !.openedAt = Now],
        CircuitOpen)

\* openTimeoutElapsed with > : the trial is admitted only after OpenTimeout.
openTimeoutElapsed_Strict(c, t) == t - c.openedAt > opts.OpenTimeout

\* beforeCall, case CircuitOpen: now.Sub(c.openedAt) >= c.opts.OpenTimeout
openTimeoutElapsed(c, t) == t - c.openedAt >= opts.OpenTimeout

\* halfOpenAdmission counting a busy rejection as a failure.
halfOpenAdmission_BusyCounts(c) ==
    IF c.halfInFlight
    THEN [c |-> [c EXCEPT !.failures = @ + 1], err |-> ErrCircuitHalfOpenBusy]
    ELSE [c |-> [c EXCEPT !.halfInFlight = TRUE], err |-> NilErr]

\* beforeCall, case CircuitHalfOpen: the admission of a trial.
halfOpenAdmission(c) ==
    IF c.halfInFlight
    THEN [c |-> c, err |-> ErrCircuitHalfOpenBusy]
    ELSE [c |-> [c EXCEPT !.halfInFlight = TRUE], err |-> NilErr]

\* beforeCall, under the lock: the switch on c.state, with the local now = t.
beforeCall(c, t) ==
    CASE c.state = CircuitClosed -> [c |-> c, err |-> NilErr]
      [] c.state = CircuitOpen ->
            IF openTimeoutElapsed(c, t)
            THEN halfOpenAdmission(transitionLocked(c, CircuitHalfOpen))
            ELSE [c |-> c, err |-> ErrCircuitOpen]
      [] c.state = CircuitHalfOpen -> halfOpenAdmission(c)
      [] OTHER -> [c |-> c, err |-> ErrCircuitOpen]

\* recordSuccess counting each trial on its own: a success below the threshold
\* leaves the counter at zero.
recordSuccess_NoCarry(c) ==
    CASE c.state = CircuitClosed -> [c EXCEPT !.failures = 0]
      [] c.state = CircuitHalfOpen ->
            IF c.halfSuccess + 1 >= opts.SuccessThreshold
            THEN transitionLocked([c EXCEPT !.failures = 0, !.halfSuccess = 0],
                                  CircuitClosed)
            ELSE [c EXCEPT !.halfSuccess = 0]
      [] OTHER -> c

\* afterCall, err == nil: the switch on c.state.
recordSuccess(c) ==
    CASE c.state = CircuitClosed -> [c EXCEPT !.failures = 0]
      [] c.state = CircuitHalfOpen ->
            IF c.halfSuccess + 1 >= opts.SuccessThreshold
            THEN transitionLocked([c EXCEPT !.failures = 0, !.halfSuccess = 0],
                                  CircuitClosed)
            ELSE [c EXCEPT !.halfSuccess = @ + 1]
      [] OTHER -> c

\* recordFailure with the threshold compared by > : the breaker opens one
\* failure late.
recordFailure_OpensLate(c) ==
    CASE c.state = CircuitClosed ->
            IF c.failures + 1 > opts.FailureThreshold
            THEN openLocked([c EXCEPT !.failures = @ + 1])
            ELSE [c EXCEPT !.failures = @ + 1]
      [] c.state = CircuitHalfOpen -> openLocked(c)
      [] OTHER -> c

\* afterCall, an error ShouldTrip accepts: the switch on c.state.
recordFailure(c) ==
    CASE c.state = CircuitClosed ->
            IF c.failures + 1 >= opts.FailureThreshold
            THEN openLocked([c EXCEPT !.failures = @ + 1])
            ELSE [c EXCEPT !.failures = @ + 1]
      [] c.state = CircuitHalfOpen -> openLocked(c)
      [] OTHER -> c

\* afterCall without the trip predicate: every error is recorded as a failure.
afterCall_EveryErrorTrips(c, err) ==
    LET c1 == IF c.state = CircuitHalfOpen THEN [c EXCEPT !.halfInFlight = FALSE] ELSE c
    IN  IF err = NilErr THEN recordSuccess(c1)
        ELSE recordFailure(c1)

\* afterCall clearing the trial flag only for the outcomes it records: an
\* error ShouldTrip rejects leaves the flag set.
afterCall_KeepsTrialFlag(c, err) ==
    LET c1 == IF c.state = CircuitHalfOpen THEN [c EXCEPT !.halfInFlight = FALSE] ELSE c
    IN  IF err = NilErr THEN recordSuccess(c1)
        ELSE IF ~ShouldTrip(err) THEN c
        ELSE recordFailure(c1)

\* afterCall, under the lock.
afterCall(c, err) ==
    LET c1 == IF c.state = CircuitHalfOpen THEN [c EXCEPT !.halfInFlight = FALSE] ELSE c
    IN  IF err = NilErr THEN recordSuccess(c1)
        ELSE IF ~ShouldTrip(err) THEN c1
        ELSE recordFailure(c1)

\* c.mu.Lock() by caller p: taken when free.
Lock(c, p) == [c EXCEPT !.mu = p]

\* The deferred Unlock left out: the lock stays with the caller.
Unlock_Never(c) == c

\* defer c.mu.Unlock()
Unlock(c) == [c EXCEPT !.mu = NoOne]

\* The breaker's fields after a lock-protected section left them as c.
SetCB(c) ==
    /\ mu' = c.mu
    /\ state' = c.state
    /\ openedAt' = c.openedAt
    /\ failures' = c.failures
    /\ halfSuccess' = c.halfSuccess
    /\ halfInFlight' = c.halfInFlight
    /\ observed' = c.observed

\* ----------------------------------- circuit breaker: a caller's steps

\* CBCall consulting the breaker before the context: an Open breaker answers
\* a call whose context is already cancelled with its own sentinel.
CBCall_SentinelFirst(p) ==
    /\ wrapped = "CircuitBreaker"
    /\ pc[p] = "idle"
    /\ calls < MaxCalls
    /\ calls' = calls + 1
    /\ \E canceledAt \in {"never", "entry", "beforeCall"} :
          IF canceledAt # "never"
          THEN /\ \E e \in ContextErrors :
                     returned' = Reject(p, IF state = CircuitOpen THEN ErrCircuitOpen
                                           ELSE e, canceledAt = "entry")
               /\ UNCHANGED <<pc, now>>
          ELSE /\ now' = [now EXCEPT ![p] = Now]
               /\ pc' = [pc EXCEPT ![p] = "beforeCall"]
               /\ returned' = NoReturn
    /\ UNCHANGED <<wrapped, fused, opErrs, opts, rlOpts, clock, mu, cbVars, observed, rlVars,
                   admissions, trial, streak>>
    /\ UNCHANGED <<retryVars, timeoutVars, executeVars>>

\* wrapped(ctx) is called.  The context is found done (cancelled, or past its
\* deadline: either error of ContextErrors) by the wrapper's own
\* check of ctx.Err() ("entry"), by beforeCall's check ("beforeCall": it was
\* cancelled between the two), or by neither; then now := c.opts.Now().
CBCall(p) ==
    /\ wrapped = "CircuitBreaker"
    /\ pc[p] = "idle"
    /\ calls < MaxCalls
    /\ calls' = calls + 1
    /\ \E canceledAt \in {"never", "entry", "beforeCall"} :
          IF canceledAt # "never"
          THEN /\ \E e \in ContextErrors :
                     returned' = Reject(p, e, canceledAt = "entry")
               /\ UNCHANGED <<pc, now>>
          ELSE /\ now' = [now EXCEPT ![p] = Now]
               /\ pc' = [pc EXCEPT ![p] = "beforeCall"]
               /\ returned' = NoReturn
    /\ UNCHANGED <<wrapped, fused, opErrs, opts, rlOpts, clock, mu, cbVars, observed, rlVars,
                   admissions, trial, streak>>
    /\ UNCHANGED <<retryVars, timeoutVars, executeVars>>

\* beforeCall from c.mu.Lock() to the deferred Unlock: the switch on c.state;
\* then either the rejection is returned or next(ctx) is entered.
CBBeforeCall(p) ==
    /\ pc[p] = "beforeCall"
    /\ mu = NoOne
    /\ LET r == beforeCall(Lock(CB, p), now[p])
       IN  /\ SetCB(Unlock(r.c))
           /\ IF r.err # NilErr
              THEN /\ returned' = Reject(p, r.err, FALSE)
                   /\ pc' = [pc EXCEPT ![p] = "idle"]
                   /\ trial' = trial
              ELSE /\ pc' = [pc EXCEPT ![p] = "next"]
                   /\ trial' = [trial EXCEPT ![p] = (r.c.state = CircuitHalfOpen)]
                   /\ returned' = NoReturn
    /\ now' = [now EXCEPT ![p] = 0]
    /\ UNCHANGED <<wrapped, fused, opErrs, opts, rlOpts, clock, rlVars, admissions, streak, calls>>
    /\ UNCHANGED <<retryVars, timeoutVars, executeVars>>

\* The failures that count toward FailureThreshold, told from the outcomes the
\* breaker has recorded (not from its counter): one more for an error
\* ShouldTrip accepts recorded while Closed, none after a success recorded while
\* Closed or once the breaker has closed again.
StreakAfter(err) ==
    IF state = CircuitClosed
    THEN IF err = NilErr THEN 0
         ELSE IF ShouldTrip(err) THEN streak + 1
         ELSE streak
    ELSE IF state' = CircuitClosed THEN 0
    ELSE streak

\* result, err := next(ctx) returns; afterCall from c.mu.Lock() to the deferred
\* Unlock; return result, err.
CBAfterCall(p) ==
    /\ pc[p] = "next"
    /\ mu = NoOne
    /\ \E o \in Outcomes :
          /\ SetCB(Unlock(afterCall(Lock(CB, p), o.err)))
          /\ returned' = Forward(p, o)
          /\ streak' = StreakAfter(o.err)
    /\ trial' = [trial EXCEPT ![p] = FALSE]
    /\ pc' = [pc EXCEPT ![p] = "idle"]
    /\ UNCHANGED <<wrapped, fused, opErrs, opts, rlOpts, clock, rlVars, admissions, now, calls>>
    /\ UNCHANGED <<retryVars, timeoutVars, executeVars>>

\* ------------------------------------------------ rate limiter: the code

\* float64(1)
FOne == FFromInt[1]

\* if tokens > float64(opts.Burst) { tokens = float64(opts.Burst) }
clampToBurst[held \in Float64, burst \in Float64] == IF FLess[burst, held] THEN burst ELSE held

\* lastAt = now, and the decision made with the token left in the bucket.
leaveToken[held \in Float64, t \in Int] == [tokens |-> held, lastAt |-> t, ok |-> FLessEq[FOne, held]]

\* lastAt = now; if tokens >= 1 { tokens -= 1; return true }; return false
takeToken[held \in Float64, t \in Int] ==
    IF FLessEq[FOne, held]
    THEN [tokens |-> FSub[held, FOne], lastAt |-> t, ok |-> TRUE]
    ELSE [tokens |-> held, lastAt |-> t, ok |-> FALSE]

\* tokens += elapsed * opts.Rate, with elapsed := now.Sub(lastAt).Seconds().
\* The language lets a build fuse x*y + z: one that does not (amd64) rounds
\* the product to float64 and then the sum; one that does (arm64, ppc64le,
\* s390x, riscv64, amd64 at GOAMD64=v3) rounds the exact x*y + z once.
refill(b, t) ==
    IF fused
    THEN FFma[SecondsOf[t - b.lastAt], rlOpts.Rate, b.tokens]
    ELSE FAdd[b.tokens, FMul[SecondsOf[t - b.lastAt], rlOpts.Rate]]

\* allow() admitting without taking the token: the same token admits the next
\* caller too.
allow_TokenNotTaken(b, t) ==
    leaveToken[clampToBurst[refill(b, t), FFromInt[rlOpts.Burst]], t]

\* allow(), under the lock, at the clock reading t: b is (tokens, lastAt).
\* The bucket is refilled for the time since lastAt, clamped to the capacity,
\* and gives one token if it holds a whole one.
allow(b, t) ==
    takeToken[clampToBurst[refill(b, t), FFromInt[rlOpts.Burst]], t]

\* ------------------------------------- rate limiter: a caller's steps

\* wrapped(ctx) is called: the wrapper's check of ctx.Err().
RLCall(p) ==
    /\ wrapped = "RateLimit"
    /\ pc[p] = "idle"
    /\ calls < MaxRLCalls
    /\ calls' = calls + 1
    /\ \E canceledAt \in {"never", "entry"} :
          IF canceledAt # "never"
          THEN /\ \E e \in ContextErrors : returned' = Reject(p, e, TRUE)
               /\ pc' = pc
          ELSE /\ pc' = [pc EXCEPT ![p] = "allow"]
               /\ returned' = NoReturn
    /\ UNCHANGED <<wrapped, fused, opErrs, opts, rlOpts, clock, mu, cbVars, observed, rlVars,
                   admissions, now, trial, streak>>
    /\ UNCHANGED <<retryVars, timeoutVars, executeVars>>

\* allow() from mu.Lock() to the deferred Unlock; then either the rejection is
\* returned or next(ctx) is entered.
RLAllow(p) ==
    /\ pc[p] = "allow"
    /\ mu = NoOne
    /\ \E r \in {allow([tokens |-> tokens, lastAt |-> lastAt], Now)} :
          /\ tokens' = r.tokens
          /\ lastAt' = r.lastAt
          /\ admissions' = Append(admissions,
                                  [at |-> Now, ok |-> r.ok, left |-> r.tokens])
          /\ IF r.ok
             THEN /\ pc' = [pc EXCEPT ![p] = "rlNext"]
                  /\ returned' = NoReturn
             ELSE /\ pc' = [pc EXCEPT ![p] = "idle"]
                  /\ returned' = Reject(p, ErrRateLimitExceeded, FALSE)
    /\ mu' = NoOne
    /\ UNCHANGED <<wrapped, fused, opErrs, opts, rlOpts, clock, cbVars, observed, now, trial,
                   streak, calls>>
    /\ UNCHANGED <<retryVars, timeoutVars, executeVars>>

\* return next(ctx): the wrapped operation returns.
RLNext(p) ==
    /\ pc[p] = "rlNext"
    /\ \E o \in Outcomes : returned' = Forward(p, o)
    /\ pc' = [pc EXCEPT ![p] = "idle"]
    /\ UNCHANGED <<wrapped, fused, opErrs, opts, rlOpts, clock, mu, cbVars, observed, rlVars,
                   admissions, now, trial, streak, calls>>
    /\ UNCHANGED <<retryVars, timeoutVars, executeVars>>

\* The injected clock advances: a limiter's by one of its steps, in ticks, up
\* to its last reading, a breaker's by one second.
Tick ==
    /\ \E d \in IF wrapped = "RateLimit" THEN RLClockSteps ELSE {1} :
          /\ clock + d <= IF wrapped = "RateLimit" THEN MaxRLClock ELSE MaxClock
          /\ clock' = clock + d
    /\ returned' = NoReturn
    /\ UNCHANGED <<wrapped, fused, opErrs, opts, rlOpts, mu, cbVars, observed, rlVars, admissions,
                   pc, now, trial, streak, calls>>
    /\ UNCHANGED <<retryVars, timeoutVars, executeVars>>

\* The injected clock returns an earlier reading than its last one: opts.Now
\* is any function the caller supplies.
Rewind ==
    /\ \E t \in RLClockReadings : t < clock /\ clock' = t
    /\ returned' = NoReturn
    /\ UNCHANGED <<wrapped, fused, opErrs, opts, rlOpts, mu, cbVars, observed, rlVars, admissions,
                   pc, now, trial, streak, calls>>
    /\ UNCHANGED <<retryVars, timeoutVars, executeVars>>

\* ----------------------------------------------- retry: the call's steps

\* The goroutine that calls Retry's handler.
RetryCaller == "g1"

\* return nil, e: Retry's own return, after next returned lastOutcome (or was
\* never invoked).
RetryReturn(e) ==
    [caller |-> RetryCaller, result |-> "nil", err |-> e, inner |-> lastOutcome,
     entryCanceled |-> FALSE]

\* The context Retry's handler was called with is done: its cancel function
\* was called or its deadline passed.
Cancel ==
    /\ wrapped = "Retry"
    /\ ctxErr = NilErr
    /\ rpc \notin {"done", "panic"}
    /\ \E e \in ContextErrors : ctxErr' = e
    /\ cancelPoint' = rpc
    /\ UNCHANGED <<wrapped, fused, opErrs, returned, sharedVars, timeoutVars, executeVars, rOpts, rpc, attempt, lastErr, timer,
                   invoked, lastOutcome>>

\* Retry's handler is called: var lastErr error; attempt := 0.
RetryCall ==
    /\ wrapped = "Retry"
    /\ rpc = "idle"
    /\ rpc' = "loop"
    /\ attempt' = 0
    /\ lastErr' = NilErr
    /\ UNCHANGED <<wrapped, fused, opErrs, returned, sharedVars, timeoutVars, executeVars, rOpts, ctxErr, timer, invoked,
                   lastOutcome, cancelPoint>>

\* The head of the loop: attempt < opts.MaxAttempts, else return nil, lastErr;
\* ctx.Err() != nil, then return nil, ctx.Err(); else next(ctx) is called.
RetryAttempt ==
    /\ wrapped = "Retry"
    /\ rpc = "loop"
    /\ IF ~(attempt < rOpts.MaxAttempts)
       THEN /\ returned' = RetryReturn(lastErr)
            /\ rpc' = "done"
            /\ invoked' = invoked
       ELSE IF ctxErr # NilErr
       THEN /\ returned' = RetryReturn(ctxErr)
            /\ rpc' = "done"
            /\ invoked' = invoked
       ELSE /\ rpc' = "next"
            /\ invoked' = invoked + 1
            /\ returned' = returned
    /\ UNCHANGED <<wrapped, fused, opErrs, sharedVars, timeoutVars, executeVars, rOpts, ctxErr, attempt, lastErr, timer,
                   lastOutcome, cancelPoint>>

\* RetryNext returning nil, nil for a success: the result is dropped.
RetryNext_DropsResult ==
    /\ wrapped = "Retry"
    /\ rpc = "next"
    /\ \E o \in OpOutcomes(invoked) :
          /\ lastOutcome' = o
          /\ IF o.err = NilErr
             THEN /\ returned' = RetryReturn(NilErr)
                  /\ rpc' = "done"
                  /\ UNCHANGED <<lastErr, timer>>
             ELSE /\ lastErr' = o.err
                  /\ IF attempt = rOpts.MaxAttempts - 1
                     THEN /\ returned' = [RetryReturn(o.err) EXCEPT !.inner = o]
                          /\ rpc' = "done"
                          /\ timer' = timer
                     ELSE \E d \in computeDelay(attempt, rOpts) :
                             /\ timer' = d.delay
                             /\ rpc' = IF d.panic THEN "panic" ELSE "select"
                             /\ returned' = returned
    /\ UNCHANGED <<wrapped, fused, opErrs, sharedVars, timeoutVars, executeVars, rOpts, ctxErr, attempt, invoked, cancelPoint>>

\* next(ctx) returns (result, err): a success is returned; after the last
\* attempt's failure the loop is left and nil, lastErr returned; after another
\* failure the delay is computed and the timer started.
RetryNext ==
    /\ wrapped = "Retry"
    /\ rpc = "next"
    /\ \E o \in OpOutcomes(invoked) :
          /\ lastOutcome' = o
          /\ IF o.err = NilErr
             THEN /\ returned' = Forward(RetryCaller, o)
                  /\ rpc' = "done"
                  /\ UNCHANGED <<lastErr, timer>>
             ELSE /\ lastErr' = o.err
                  /\ IF attempt = rOpts.MaxAttempts - 1
                     THEN /\ returned' = [RetryReturn(o.err) EXCEPT !.inner = o]
                          /\ rpc' = "done"
                          /\ timer' = timer
                     ELSE \E d \in computeDelay(attempt, rOpts) :
                             /\ timer' = d.delay
                             /\ rpc' = IF d.panic THEN "panic" ELSE "select"
                             /\ returned' = returned
    /\ UNCHANGED <<wrapped, fused, opErrs, sharedVars, timeoutVars, executeVars, rOpts, ctxErr, attempt, invoked, cancelPoint>>

\* select, case <-timer.C: the next iteration, attempt++.
RetryTimer ==
    /\ wrapped = "Retry"
    /\ rpc = "select"
    /\ rpc' = "loop"
    /\ attempt' = attempt + 1
    /\ UNCHANGED <<wrapped, fused, opErrs, returned, sharedVars, timeoutVars, executeVars, rOpts, ctxErr, lastErr, timer,
                   invoked, lastOutcome, cancelPoint>>

\* RetryCtxDone returning the operation's last error in place of ctx.Err().
RetryCtxDone_ReturnsLastErr ==
    /\ wrapped = "Retry"
    /\ rpc = "select"
    /\ ctxErr # NilErr
    /\ returned' = RetryReturn(lastErr)
    /\ rpc' = "done"
    /\ UNCHANGED <<wrapped, fused, opErrs, sharedVars, timeoutVars, executeVars, rOpts, ctxErr, attempt, lastErr, timer,
                   invoked, lastOutcome, cancelPoint>>

\* select, case <-ctx.Done(): return nil, ctx.Err().
RetryCtxDone ==
    /\ wrapped = "Retry"
    /\ rpc = "select"
    /\ ctxErr # NilErr
    /\ returned' = RetryReturn(ctxErr)
    /\ rpc' = "done"
    /\ UNCHANGED <<wrapped, fused, opErrs, sharedVars, timeoutVars, executeVars, rOpts, ctxErr, attempt, lastErr, timer,
                   invoked, lastOutcome, cancelPoint>>

\* ------------------------- retry around a circuit breaker: the call's steps

\* Execute(ctx, operation, Retry(...), CircuitBreaker(...)): Retry outermost,
\* its next the breaker's handler, whose next is the operation.
RetryAroundCircuitBreaker == "Retry(CircuitBreaker)"

\* The options the caller of the composition constructs Retry with.
ComposedRetryOptions ==
    [ MaxAttempts : {0, 2, 4},
      InitialDelay : {Duration(1), Duration(10)},
      MaxDelay : {Duration(25)},
      Backoff : {BackoffFixed, BackoffExponential},
      Jitter : BOOLEAN ]

\* Retry's loop after result, err := next(ctx) handed it o: a success is
\* returned; after the last attempt's failure the loop is left and nil, lastErr
\* returned; after another failure the delay is computed and the timer started.
RetryNextReturned(o) ==
    /\ lastOutcome' = o
    /\ IF o.err = NilErr
       THEN /\ returned' = Forward(RetryCaller, o)
            /\ rpc' = "done"
            /\ UNCHANGED <<lastErr, timer>>
       ELSE /\ lastErr' = o.err
            /\ IF attempt = rOpts.MaxAttempts - 1
               THEN /\ returned' = [RetryReturn(o.err) EXCEPT !.inner = o]
                    /\ rpc' = "done"
                    /\ timer' = timer
               ELSE \E d \in computeDelay(attempt, rOpts) :
                       /\ timer' = d.delay
                       /\ rpc' = IF d.panic THEN "panic" ELSE "select"
                       /\ returned' = returned

\* The context the composition was called with is done: its cancel function
\* was called or its deadline passed.
ComposedCancel ==
    /\ wrapped = RetryAroundCircuitBreaker
    /\ ctxErr = NilErr
    /\ rpc \notin {"done", "panic"}
    /\ \E e \in ContextErrors : ctxErr' = e
    /\ cancelPoint' = rpc
    /\ UNCHANGED <<wrapped, fused, opErrs, returned, sharedVars, timeoutVars, executeVars,
                   rOpts, rpc, attempt, lastErr, timer, invoked, lastOutcome>>

\* The injected clock advances while the call is in progress.
ComposedTick ==
    /\ wrapped = RetryAroundCircuitBreaker
    /\ rpc \notin {"idle", "done", "panic"}
    /\ clock < MaxClock
    /\ clock' = clock + 1
    /\ UNCHANGED <<wrapped, fused, opErrs, returned, opts, rlOpts, mu, cbVars, observed,
                   rlVars, admissions, pc, now, trial, streak, calls>>
    /\ UNCHANGED <<retryVars, timeoutVars, executeVars>>

\* Retry's handler is called: var lastErr error; attempt := 0.
ComposedCall ==
    /\ wrapped = RetryAroundCircuitBreaker
    /\ rpc = "idle"
    /\ rpc' = "loop"
    /\ attempt' = 0
    /\ lastErr' = NilErr
    /\ UNCHANGED <<wrapped, fused, opErrs, returned, sharedVars, timeoutVars, executeVars,
                   rOpts, ctxErr, timer, invoked, lastOutcome, cancelPoint>>

\* The head of Retry's loop: attempt < opts.MaxAttempts, else return nil,
\* lastErr; ctx.Err() != nil, then return nil, ctx.Err(); else next(ctx), the
\* breaker's handler, is called.
ComposedAttempt ==
    /\ wrapped = RetryAroundCircuitBreaker
    /\ rpc = "loop"
    /\ IF ~(attempt < rOpts.MaxAttempts)
       THEN /\ returned' = RetryReturn(lastErr)
            /\ rpc' = "done"
            /\ calls' = calls
       ELSE IF ctxErr # NilErr
       THEN /\ returned' = RetryReturn(ctxErr)
            /\ rpc' = "done"
            /\ calls' = calls
       ELSE /\ rpc' = "handler"
            /\ calls' = calls + 1
            /\ returned' = returned
    /\ UNCHANGED <<wrapped, fused, opErrs, opts, rlOpts, clock, mu, cbVars, observed, rlVars,
                   admissions, pc, now, trial, streak>>
    /\ UNCHANGED <<timeoutVars, executeVars, rOpts, ctxErr, attempt, lastErr, timer,
                   invoked, lastOutcome, cancelPoint>>

\* The breaker's handler: if err := ctx.Err(); err != nil { return nil, err },
\* handed to Retry as the attempt's outcome.
ComposedHandler ==
    /\ wrapped = RetryAroundCircuitBreaker
    /\ rpc = "handler"
    /\ IF ctxErr # NilErr
       THEN RetryNextReturned([result |-> "nil", err |-> ctxErr])
       ELSE /\ rpc' = "beforeCall"
            /\ UNCHANGED <<returned, lastOutcome, lastErr, timer>>
    /\ UNCHANGED <<wrapped, fused, opErrs, sharedVars, timeoutVars, executeVars, rOpts, ctxErr,
                   attempt, invoked, cancelPoint>>

\* beforeCall: its own check of ctx.Err(), then now := c.opts.Now().
ComposedBeforeCallEntry ==
    /\ wrapped = RetryAroundCircuitBreaker
    /\ rpc = "beforeCall"
    /\ IF ctxErr # NilErr
       THEN /\ RetryNextReturned([result |-> "nil", err |-> ctxErr])
            /\ now' = now
       ELSE /\ rpc' = "lock"
            /\ now' = [now EXCEPT ![RetryCaller] = Now]
            /\ UNCHANGED <<returned, lastOutcome, lastErr, timer>>
    /\ UNCHANGED <<wrapped, fused, opErrs, opts, rlOpts, clock, mu, cbVars, observed, rlVars,
                   admissions, pc, trial, streak, calls>>
    /\ UNCHANGED <<timeoutVars, executeVars, rOpts, ctxErr, attempt, invoked,
                   cancelPoint>>

\* beforeCall from c.mu.Lock() to the deferred Unlock: a rejection is handed to
\* Retry as the attempt's outcome, else next(ctx), the operation, is invoked.
ComposedBeforeCall ==
    /\ wrapped = RetryAroundCircuitBreaker
    /\ rpc = "lock"
    /\ mu = NoOne
    /\ LET r == beforeCall(Lock(CB, RetryCaller), now[RetryCaller])
       IN  /\ SetCB(Unlock(r.c))
           /\ IF r.err # NilErr
              THEN /\ RetryNextReturned([result |-> "nil", err |-> r.err])
                   /\ invoked' = invoked
              ELSE /\ rpc' = "next"
                   /\ invoked' = invoked + 1
                   /\ UNCHANGED <<returned, lastOutcome, lastErr, timer>>
    /\ now' = [now EXCEPT ![RetryCaller] = 0]
    /\ UNCHANGED <<wrapped, fused, opErrs, opts, rlOpts, clock, rlVars, admissions, pc, trial,
                   streak, calls>>
    /\ UNCHANGED <<timeoutVars, executeVars, rOpts, ctxErr, attempt, cancelPoint>>

\* The operation returns; afterCall from c.mu.Lock() to the deferred Unlock;
\* the breaker returns result, err to Retry.
ComposedAfterCall ==
    /\ wrapped = RetryAroundCircuitBreaker
    /\ rpc = "next"
    /\ mu = NoOne
    /\ \E o \in Outcomes :
          /\ SetCB(Unlock(afterCall(Lock(CB, RetryCaller), o.err)))
          /\ opErrs' = opErrs \cup {o.err}
          /\ RetryNextReturned(o)
    /\ UNCHANGED <<wrapped, fused, opts, rlOpts, clock, rlVars, admissions, pc, now, trial,
                   streak, calls>>
    /\ UNCHANGED <<timeoutVars, executeVars, rOpts, ctxErr, attempt, invoked,
                   cancelPoint>>

\* Retry's select, case <-timer.C: the next iteration, attempt++.
ComposedTimer ==
    /\ wrapped = RetryAroundCircuitBreaker
    /\ rpc = "select"
    /\ rpc' = "loop"
    /\ attempt' = attempt + 1
    /\ UNCHANGED <<wrapped, fused, opErrs, returned, sharedVars, timeoutVars, executeVars,
                   rOpts, ctxErr, lastErr, timer, invoked, lastOutcome, cancelPoint>>

\* Retry's select, case <-ctx.Done(): return nil, ctx.Err().
ComposedCtxDone ==
    /\ wrapped = RetryAroundCircuitBreaker
    /\ rpc = "select"
    /\ ctxErr # NilErr
    /\ returned' = RetryReturn(ctxErr)
    /\ rpc' = "done"
    /\ UNCHANGED <<wrapped, fused, opErrs, sharedVars, timeoutVars, executeVars, rOpts, ctxErr,
                   attempt, lastErr, timer, invoked, lastOutcome, cancelPoint>>

\* ------------------------------------------------------- timeout: actions

\* The one caller of Timeout's handler: the policy keeps no state between calls.
TimeoutCaller == "g1"

\* return nil, timeoutCtx.Err(): the wait ended on timeoutCtx.Done().
TimeoutReturn(e) ==
    [caller |-> TimeoutCaller, result |-> "nil", err |-> e, inner |-> NotInvoked,
     entryCanceled |-> FALSE]

\* What next returns when called with a context whose Err() is e: an outcome
\* of its own or, if it watches the context and the context is done, e.
TimeoutOpOutcomes(e) ==
    OpOutcomes(invoked)
        \cup (IF e \in {NilErr, "none"} THEN {} ELSE {[result |-> "nil", err |-> e]})

\* The deferred cancel(): a context that is not yet done becomes cancelled.
cancel(c) == IF c.err = NilErr THEN [c EXCEPT !.err = Canceled] ELSE c

\* time.Now() advances by a second.
TimeoutTick ==
    /\ wrapped = "Timeout"
    /\ clock < MaxTimeoutClock
    /\ clock' = clock + 1
    /\ UNCHANGED <<wrapped, fused, opErrs, opts, rlOpts, mu, cbVars, observed, rlVars, admissions,
                   pc, now, trial, streak, calls, returned, retryVars, timeoutVars,
                   executeVars>>

\* The parent context is done with error e: a child that is not yet done is
\* done with the same error.
propagateCancel(c, e) == IF c.err = NilErr THEN [c EXCEPT !.err = e] ELSE c

\* The context Timeout's handler was called with is done (cancelled, or past
\* its own deadline); a child context that is not yet done is done with it.
TimeoutParentCancel ==
    /\ wrapped = "Timeout"
    /\ ctxErr = NilErr
    /\ \E e \in ContextErrors :
          /\ ctxErr' = e
          /\ timeoutCtx' = propagateCancel(timeoutCtx, e)
    /\ first' = IF first = "none" /\ timeoutCtx.err = NilErr THEN "cancel" ELSE first
    /\ UNCHANGED <<wrapped, fused, opErrs, sharedVars, executeVars, returned, retryLoopVars, invoked, lastOutcome,
                   tOpts, tpc, gpc, done, gout>>

\* The timer of the child context fires: its deadline has passed.
TimeoutDeadline ==
    /\ wrapped = "Timeout"
    /\ timeoutCtx.err = NilErr
    /\ clock >= timeoutCtx.deadline
    /\ timeoutCtx' = [timeoutCtx EXCEPT !.err = DeadlineExceeded]
    /\ first' = IF first = "none" THEN "deadline" ELSE first
    /\ UNCHANGED <<wrapped, fused, opErrs, sharedVars, executeVars, returned, retryVars, tOpts, tpc, gpc, done,
                   gout>>

\* Timeout's handler is called.  Disabled (Duration < 0), the handler is next
\* itself.  Otherwise: the check of ctx.Err(), context.WithTimeout, make(chan
\* outcome, 1) and the go statement.
TimeoutCall ==
    /\ wrapped = "Timeout"
    /\ tpc = "idle"
    /\ IF tOpts.Duration < 0
       THEN /\ tpc' = "next"
            /\ invoked' = invoked + 1
            /\ UNCHANGED <<returned, timeoutCtx, gpc>>
       ELSE IF ctxErr # NilErr
       THEN /\ returned' = Reject(TimeoutCaller, ctxErr, TRUE)
            /\ tpc' = "done"
            /\ UNCHANGED <<invoked, timeoutCtx, gpc>>
       ELSE /\ timeoutCtx' = [deadline |-> clock + tOpts.Duration, err |-> NilErr]
            /\ gpc' = "go"
            /\ tpc' = "select"
            /\ UNCHANGED <<returned, invoked>>
    /\ UNCHANGED <<wrapped, fused, opErrs, sharedVars, executeVars, retryLoopVars, ctxErr, lastOutcome, tOpts, done,
                   gout, first>>

\* The disabled policy: next(ctx) returns to the caller.
TimeoutPassThrough ==
    /\ wrapped = "Timeout"
    /\ tpc = "next"
    /\ \E o \in TimeoutOpOutcomes(ctxErr) :
          /\ lastOutcome' = o
          /\ returned' = Forward(TimeoutCaller, o)
    /\ tpc' = "done"
    /\ UNCHANGED <<wrapped, fused, opErrs, sharedVars, executeVars, retryLoopVars, ctxErr, invoked, tOpts,
                   timeoutCtx, gpc, done, gout, first>>

\* The goroutine starts: it calls next(timeoutCtx).
GoNext ==
    /\ wrapped = "Timeout"
    /\ gpc = "go"
    /\ gpc' = "next"
    /\ invoked' = invoked + 1
    /\ UNCHANGED <<wrapped, fused, opErrs, sharedVars, executeVars, returned, retryLoopVars, ctxErr, lastOutcome,
                   tOpts, timeoutCtx, tpc, done, gout, first>>

\* res, err := next(timeoutCtx) returns.
GoNextReturns ==
    /\ wrapped = "Timeout"
    /\ gpc = "next"
    /\ \E o \in TimeoutOpOutcomes(timeoutCtx.err) :
          /\ gout' = o
          /\ lastOutcome' = o
    /\ gpc' = "send"
    /\ first' = IF first = "none" THEN "operation" ELSE first
    /\ UNCHANGED <<wrapped, fused, opErrs, sharedVars, executeVars, returned, retryLoopVars, ctxErr, invoked,
                   tOpts, timeoutCtx, tpc, done>>

\* GoSend on an unbuffered channel (make(chan outcome)): the send completes
\* only while the handler waits in its select.
GoSend_Unbuffered ==
    /\ wrapped = "Timeout"
    /\ gpc = "send"
    /\ tpc = "select"
    /\ Len(done) < DoneCap
    /\ done' = Append(done, gout)
    /\ gpc' = "exit"
    /\ UNCHANGED <<wrapped, fused, opErrs, sharedVars, executeVars, returned, retryVars, tOpts, timeoutCtx, tpc,
                   gout, first>>

\* done <- outcome{result: res, err: err}: it blocks while the channel is full.
GoSend ==
    /\ wrapped = "Timeout"
    /\ gpc = "send"
    /\ Len(done) < DoneCap
    /\ done' = Append(done, gout)
    /\ gpc' = "exit"
    /\ UNCHANGED <<wrapped, fused, opErrs, sharedVars, executeVars, returned, retryVars, tOpts, timeoutCtx, tpc,
                   gout, first>>

\* TimeoutSelect returning a nil result with the error that was sent.
TimeoutSelect_NilResult ==
    /\ wrapped = "Timeout"
    /\ tpc = "select"
    /\ \/ /\ done # <<>>
          /\ returned' = [Forward(TimeoutCaller, Head(done)) EXCEPT !.result = "nil"]
          /\ done' = Tail(done)
       \/ /\ timeoutCtx.err # NilErr
          /\ returned' = TimeoutReturn(timeoutCtx.err)
          /\ done' = done
    /\ tpc' = "done"
    /\ timeoutCtx' = cancel(timeoutCtx)
    /\ UNCHANGED <<wrapped, fused, opErrs, sharedVars, executeVars, retryVars, tOpts, gpc, gout, first>>

\* TimeoutSelect taking timeoutCtx.Done() only once the goroutine has finished.
TimeoutSelect_WaitsForOperation ==
    /\ wrapped = "Timeout"
    /\ tpc = "select"
    /\ \/ /\ done # <<>>
          /\ returned' = Forward(TimeoutCaller, Head(done))
          /\ done' = Tail(done)
       \/ /\ timeoutCtx.err # NilErr
          /\ gpc = "exit"
          /\ returned' = TimeoutReturn(timeoutCtx.err)
          /\ done' = done
    /\ tpc' = "done"
    /\ timeoutCtx' = cancel(timeoutCtx)
    /\ UNCHANGED <<wrapped, fused, opErrs, sharedVars, executeVars, retryVars, tOpts, gpc, gout, first>>

\* The select: case out := <-done returns out.result, out.err; case
\* <-timeoutCtx.Done() returns nil, timeoutCtx.Err(); with both ready, either.
\* Then the deferred cancel().
TimeoutSelect ==
    /\ wrapped = "Timeout"
    /\ tpc = "select"
    /\ \/ /\ done # <<>>
          /\ returned' = Forward(TimeoutCaller, Head(done))
          /\ done' = Tail(done)
       \/ /\ timeoutCtx.err # NilErr
          /\ returned' = TimeoutReturn(timeoutCtx.err)
          /\ done' = done
    /\ tpc' = "done"
    /\ timeoutCtx' = cancel(timeoutCtx)
    /\ UNCHANGED <<wrapped, fused, opErrs, sharedVars, executeVars, retryVars, tOpts, gpc, gout, first>>

\* ------------------------------------------------------- execute: actions

\* The caller of Execute.
ExecuteCaller == "g1"

\* The policies a list is made of: each wraps next in a handler of its own.
PolicyNames == {"policy " \o ToString(k) : k \in 1..MaxPolicies}

\* The lists policies ...Policy: up to MaxPolicies different policies, in any
\* order.
PolicyLists ==
    UNION {{l \in [1..n -> PolicyNames] : \A a, b \in 1..n : l[a] = l[b] => a = b} :
              n \in 0..MaxPolicies}

\* handler, the operation Execute is given.
BaseHandler == "handler"

\* The error a policy returns by itself.
PolicyErr(p) == "error of " \o p

\* policy(next): the policy's handler around next.  A handler is the list of
\* the policies wrapped around the base handler, the outermost first.
Wrap(policy, next) == <<policy>> \o next

\* A handler starts executing: a policy's handler knows its next, and has not
\* called it yet.
Frame(hd) ==
    IF hd = <<>> THEN [policy |-> BaseHandler, next |-> <<>>, calls |-> 0]
    ELSE [policy |-> Head(hd), next |-> Tail(hd), calls |-> 0]

\* The handler hd is called from the handlers in below.
CallHandler(hd, below) ==
    /\ stack' = Append(below, Frame(hd))
    /\ pending' = NotInvoked
    /\ IF hd = <<>>
       THEN /\ invoked' = invoked + 1
            /\ entered' = entered
       ELSE /\ invoked' = invoked
            /\ entered' = IF \E k \in 1..Len(entered) : entered[k] = Head(hd)
                          THEN entered
                          ELSE Append(entered, Head(hd))

\* The handler being executed, and the handlers that called it.
Top == stack[Len(stack)]
Below == SubSeq(stack, 1, Len(stack) - 1)

\* Execute is called: h := handler; i := len(policies) - 1.
ExecuteEnter ==
    /\ wrapped = "Execute"
    /\ epc = "idle"
    /\ execH' = <<>>
    /\ execI' = Len(policies)
    /\ epc' = "loop"
    /\ UNCHANGED <<wrapped, fused, opErrs, sharedVars, returned, retryVars, timeoutVars, policies,
                   stack, entered, pending>>

\* ExecuteLoop wrapping the policies from the first of the list to the last.
ExecuteLoop_FirstInnermost ==
    /\ wrapped = "Execute"
    /\ epc = "loop"
    /\ execI >= 1
    /\ execH' = Wrap(policies[Len(policies) + 1 - execI], execH)
    /\ execI' = execI - 1
    /\ UNCHANGED <<wrapped, fused, opErrs, sharedVars, returned, retryVars, timeoutVars, policies,
                   epc, stack, entered, pending>>

\* for i := len(policies) - 1; i >= 0; i-- { h = policies[i](h) }
ExecuteLoop ==
    /\ wrapped = "Execute"
    /\ epc = "loop"
    /\ execI >= 1
    /\ execH' = Wrap(policies[execI], execH)
    /\ execI' = execI - 1
    /\ UNCHANGED <<wrapped, fused, opErrs, sharedVars, returned, retryVars, timeoutVars, policies,
                   epc, stack, entered, pending>>

\* The loop is over: h(ctx) is called.
ExecuteCall ==
    /\ wrapped = "Execute"
    /\ epc = "loop"
    /\ execI < 1
    /\ CallHandler(execH, <<>>)
    /\ epc' = "call"
    /\ UNCHANGED <<wrapped, fused, opErrs, sharedVars, returned, retryLoopVars, ctxErr, lastOutcome,
                   timeoutVars, policies, execH, execI>>

\* A policy's handler calls next(ctx): for the first time, or again after next
\* returned.
PolicyDelegates ==
    /\ wrapped = "Execute"
    /\ epc = "call"
    /\ stack # <<>>
    /\ Top.policy # BaseHandler
    /\ Top.calls < MaxDelegations
    /\ CallHandler(Top.next, Append(Below, [Top EXCEPT !.calls = @ + 1]))
    /\ UNCHANGED <<wrapped, fused, opErrs, sharedVars, returned, retryLoopVars, ctxErr, lastOutcome,
                   timeoutVars, policies, execH, execI, epc>>

\* A policy's handler returns what next returned.
PolicyForwards ==
    /\ wrapped = "Execute"
    /\ epc = "call"
    /\ stack # <<>>
    /\ Top.policy # BaseHandler
    /\ Top.calls > 0
    /\ stack' = Below
    /\ UNCHANGED <<wrapped, fused, opErrs, sharedVars, returned, retryVars, timeoutVars, policies,
                   execH, execI, epc, entered, pending>>

\* A policy's handler returns nil and an error of its own: without having
\* called next, or in place of what next returned.
PolicyRejects ==
    /\ wrapped = "Execute"
    /\ epc = "call"
    /\ stack # <<>>
    /\ Top.policy # BaseHandler
    /\ stack' = Below
    /\ pending' = [result |-> "nil", err |-> PolicyErr(Top.policy)]
    /\ UNCHANGED <<wrapped, fused, opErrs, sharedVars, returned, retryVars, timeoutVars, policies,
                   execH, execI, epc, entered>>

\* The base handler returns.
HandlerReturns ==
    /\ wrapped = "Execute"
    /\ epc = "call"
    /\ stack # <<>>
    /\ Top.policy = BaseHandler
    /\ \E o \in OpOutcomes(invoked) :
          /\ pending' = o
          /\ lastOutcome' = o
    /\ stack' = Below
    /\ UNCHANGED <<wrapped, fused, opErrs, sharedVars, returned, retryLoopVars, ctxErr, invoked,
                   timeoutVars, policies, execH, execI, epc, entered>>

\* return h(ctx)
ExecuteReturn ==
    /\ wrapped = "Execute"
    /\ epc = "call"
    /\ stack = <<>>
    /\ returned' = Forward(ExecuteCaller, pending)
    /\ epc' = "done"
    /\ UNCHANGED <<wrapped, fused, opErrs, sharedVars, retryVars, timeoutVars, policies, execH,
                   execI, stack, entered, pending>>

\* ------------------------------------------------------ specification

\* Before any call: every caller idle, the lock free, the clock at 0.
InitCallers ==
    /\ clock = 0
    /\ mu = NoOne
    /\ pc = [p \in Callers |-> "idle"]
    /\ now = [p \in Callers |-> 0]
    /\ trial = [p \in Callers |-> FALSE]
    /\ returned = NoReturn
    /\ streak = 0
    /\ calls = 0
    /\ opErrs = {}

\* Execute has not been called.
newExecuteCall ==
    /\ execH = <<>>
    /\ execI = Len(policies)
    /\ epc = "idle"
    /\ stack = <<>>
    /\ entered = <<>>
    /\ pending = NotInvoked

\* Timeout's handler has not been called.
newTimeoutCall ==
    /\ timeoutCtx = NoContext
    /\ tpc = "idle"
    /\ gpc = "idle"
    /\ done = <<>>
    /\ gout = NotInvoked
    /\ first = "none"

\* Before Retry's handler is called: the context live, nothing invoked.
newRetryCall ==
    /\ ctxErr = NilErr
    /\ rpc = "idle"
    /\ attempt = 0
    /\ lastErr = NilErr
    /\ timer = Duration(0)
    /\ invoked = 0
    /\ lastOutcome = NotInvoked
    /\ cancelPoint = "none"

\* newCircuitBreaker: state Closed, every other field zero.
newCircuitBreaker ==
    /\ state = CircuitClosed
    /\ openedAt = 0
    /\ failures = 0
    /\ halfSuccess = 0
    /\ halfInFlight = FALSE
    /\ observed = << >>

\* RateLimit's construction: a full bucket, lastAt := opts.Now().
newRateLimit ==
    /\ tokens = FFromInt[rlOpts.Burst]
    /\ lastAt = Now
    /\ admissions = << >>

\* CircuitBreaker(options)(handler), shared by the callers.
InitCB ==
    /\ wrapped = "CircuitBreaker"
    /\ \E o \in CircuitBreakerOptions : opts = applyCircuitBreakerDefaults(o)
    /\ rlOpts = applyRateLimitDefaults([Rate |-> FZero, Burst |-> 0])
    /\ fused = FALSE    \* no limiter is constructed: the statement is never run
    /\ InitCallers
    /\ newCircuitBreaker
    /\ newRateLimit
    /\ rOpts = DefaultRetryOptions
    /\ newRetryCall
    /\ tOpts = DefaultTimeoutOptions
    /\ newTimeoutCall
    /\ policies = <<>>
    /\ newExecuteCall

NextCB ==
    \/ Tick
    \/ \E p \in Callers :
          \/ CBCall(p)
          \/ CBBeforeCall(p)
          \/ CBAfterCall(p)

SpecCB == InitCB /\ [][NextCB]_vars

\* RateLimit(options)(handler), shared by the callers.
InitRL ==
    /\ wrapped = "RateLimit"
    /\ \E o \in RateLimitOptions : rlOpts = applyRateLimitDefaults(o)
    /\ fused \in BOOLEAN
    /\ opts = applyCircuitBreakerDefaults(
                  [FailureThreshold |-> 0, SuccessThreshold |-> 0, OpenTimeout |-> 0,
                   ShouldTrip |-> "nil"])
    /\ InitCallers
    /\ newCircuitBreaker
    /\ newRateLimit
    /\ rOpts = DefaultRetryOptions
    /\ newRetryCall
    /\ tOpts = DefaultTimeoutOptions
    /\ newTimeoutCall
    /\ policies = <<>>
    /\ newExecuteCall

NextRL ==
    \/ Tick
    \/ \E p \in Callers :
          \/ RLCall(p)
          \/ RLAllow(p)
          \/ RLNext(p)

SpecRL == InitRL /\ [][NextRL]_vars

\* RateLimit(options)(handler) with an injected clock whose readings come in
\* any order.
NextRLAnyClock ==
    \/ NextRL
    \/ Rewind

SpecRLAnyClock == InitRL /\ [][NextRLAnyClock]_vars

\* Retry(options)(handler), called once.
InitRetry ==
    /\ wrapped = "Retry"
    /\ \E o \in RetryOptions : rOpts = applyDefaults(o)
    /\ opts = DefaultCircuitBreakerOptions
    /\ rlOpts = DefaultRateLimitOptions
    /\ fused = FALSE    \* no limiter is constructed: the statement is never run
    /\ InitCallers
    /\ newCircuitBreaker
    /\ newRateLimit
    /\ newRetryCall
    /\ tOpts = DefaultTimeoutOptions
    /\ newTimeoutCall
    /\ policies = <<>>
    /\ newExecuteCall

NextRetry ==
    \/ Cancel
    \/ RetryCall
    \/ RetryAttempt
    \/ RetryNext
    \/ RetryTimer
    \/ RetryCtxDone

SpecRetry == InitRetry /\ [][NextRetry]_vars

\* Timeout(options)(handler), called once.
InitTimeout ==
    /\ wrapped = "Timeout"
    /\ \E o \in TimeoutOptions : tOpts = applyTimeoutDefaults(o)
    /\ rOpts = DefaultRetryOptions
    /\ opts = DefaultCircuitBreakerOptions
    /\ rlOpts = DefaultRateLimitOptions
    /\ fused = FALSE    \* no limiter is constructed: the statement is never run
    /\ InitCallers
    /\ newCircuitBreaker
    /\ newRateLimit
    /\ ctxErr = NilErr
    /\ rpc = "idle"
    /\ attempt = 0
    /\ lastErr = NilErr
    /\ timer = Duration(0)
    /\ invoked = 0
    /\ lastOutcome = NotInvoked
    /\ cancelPoint = "none"
    /\ newTimeoutCall
    /\ policies = <<>>
    /\ newExecuteCall

NextTimeout ==
    \/ TimeoutTick
    \/ TimeoutParentCancel
    \/ TimeoutDeadline
    \/ TimeoutCall
    \/ TimeoutPassThrough
    \/ GoNext
    \/ GoNextReturns
    \/ GoSend
    \/ TimeoutSelect

SpecTimeout == InitTimeout /\ [][NextTimeout]_vars

\* The caller's goroutine is scheduled: a select with a ready case is taken.
\* Nothing is assumed of the wrapped operation or of its goroutine.
FairSpecTimeout == SpecTimeout /\ WF_vars(TimeoutSelect)

\* Execute(ctx, handler, policies...), called once.
InitExecute ==
    /\ wrapped = "Execute"
    /\ policies \in PolicyLists
    /\ tOpts = DefaultTimeoutOptions
    /\ rOpts = DefaultRetryOptions
    /\ opts = DefaultCircuitBreakerOptions
    /\ rlOpts = DefaultRateLimitOptions
    /\ fused = FALSE    \* no limiter is constructed: the statement is never run
    /\ InitCallers
    /\ newCircuitBreaker
    /\ newRateLimit
    /\ newRetryCall
    /\ newTimeoutCall
    /\ newExecuteCall

NextExecute ==
    \/ ExecuteEnter
    \/ ExecuteLoop
    \/ ExecuteCall
    \/ PolicyDelegates
    \/ PolicyForwards
    \/ PolicyRejects
    \/ HandlerReturns
    \/ ExecuteReturn

SpecExecute == InitExecute /\ [][NextExecute]_vars

\* Either policy, shared by the callers.
Init == InitCB \/ InitRL

Next ==
    \/ Tick
    \/ \E p \in Callers :
          \/ CBCall(p)
          \/ CBBeforeCall(p)
          \/ CBAfterCall(p)
          \/ RLCall(p)
          \/ RLAllow(p)
          \/ RLNext(p)

Spec == Init /\ [][Next]_vars

\* Every admitted operation eventually returns, and its caller's afterCall
\* runs: the lock is never held across a step.
FairSpecCB == SpecCB /\ \A p \in Callers : WF_vars(CBAfterCall(p))

\* Any one of the four policies, wrapped around the operation.
InitPolicies == InitCB \/ InitRL \/ InitRetry \/ InitTimeout

NextPolicies ==
    \/ wrapped \in {"CircuitBreaker", "RateLimit"} /\ Next
    \/ NextRetry
    \/ NextTimeout

SpecPolicies == InitPolicies /\ [][NextPolicies]_vars

\* Execute(ctx, operation, Retry(options), CircuitBreaker(options)), called
\* once by one caller.
InitRetryCB ==
    /\ wrapped = RetryAroundCircuitBreaker
    /\ \E o \in ComposedRetryOptions : rOpts = applyDefaults(o)
    /\ \E o \in CircuitBreakerOptions : opts = applyCircuitBreakerDefaults(o)
    /\ rlOpts = DefaultRateLimitOptions
    /\ fused = FALSE    \* no limiter is constructed: the statement is never run
    /\ InitCallers
    /\ newCircuitBreaker
    /\ newRateLimit
    /\ newRetryCall
    /\ tOpts = DefaultTimeoutOptions
    /\ newTimeoutCall
    /\ policies = <<>>
    /\ newExecuteCall

NextRetryCB ==
    \/ ComposedCancel
    \/ ComposedTick
    \/ ComposedCall
    \/ ComposedAttempt
    \/ ComposedHandler
    \/ ComposedBeforeCallEntry
    \/ ComposedBeforeCall
    \/ ComposedAfterCall
    \/ ComposedTimer
    \/ ComposedCtxDone

SpecRetryCB == InitRetryCB /\ [][NextRetryCB]_vars

\* The goroutine of the go statement is scheduled: its send is made once the
\* channel can take it.  Nothing is assumed of the wrapped operation.
FairSpecTimeoutTask == SpecTimeout /\ WF_vars(GoSend)

TypeOK ==
    /\ state \in {CircuitClosed, CircuitOpen, CircuitHalfOpen}
    /\ mu \in Callers \cup {NoOne}
    /\ failures \in Nat
    /\ halfSuccess \in Nat

\* ------------------------------------------------------------- claims

\* The callers whose call was admitted as a half-open trial and has not yet
\* recorded its outcome (afterCall has not run for it).
TrialsInFlight == {p \in Callers : pc[p] = "next" /\ trial[p]}

\* C1: at most one call admitted as a half-open trial is in flight at any time,
\* whatever calls admitted while Closed are still running.
C1_SingleTrialInFlight == Cardinality(TrialsInFlight) <= 1

\* A step in which caller p's beforeCall runs its lock-protected switch.
BeforeCallStep(p) == pc[p] = "beforeCall" /\ pc'[p] # "beforeCall"

\* A step in which caller p's operation returns and afterCall records it.
AfterCallStep(p) == pc[p] = "next" /\ pc'[p] = "idle"

\* The step hands caller p the error e without next(ctx) having been invoked.
RejectedWith(p, e) ==
    /\ pc'[p] = "idle"
    /\ returned'.caller = p
    /\ returned'.err = e
    /\ returned'.result = "nil"
    /\ returned'.inner = NotInvoked

\* C2, the steps: in Closed, the recorded failure that brings the streak of
\* qualifying failures to FailureThreshold opens the breaker (at the clock's
\* reading), and one that leaves it below keeps the breaker Closed; a call
\* checked while Open before OpenTimeout has elapsed is rejected with
\* ErrCircuitOpen and the operation is not invoked; a call checked while
\* Closed is passed through.
C2_TrippingStep ==
    \A p \in Callers :
        /\ (AfterCallStep(p) /\ state = CircuitClosed /\ ShouldTrip(returned'.inner.err))
              => IF streak' >= opts.FailureThreshold
                 THEN state' = CircuitOpen /\ openedAt' = clock
                 ELSE state' = CircuitClosed
        /\ (BeforeCallStep(p) /\ state = CircuitOpen
                /\ clock - openedAt < opts.OpenTimeout)
              => RejectedWith(p, ErrCircuitOpen)
        /\ (BeforeCallStep(p) /\ state = CircuitClosed)
              => pc'[p] = "next" /\ returned' = NoReturn

\* C2: after FailureThreshold qualifying failures with no success between them
\* the breaker is Open and the next call before OpenTimeout is rejected with
\* ErrCircuitOpen, the operation not invoked; with fewer it is still Closed and
\* calls pass through.
C2_TripsAfterFailureThreshold ==
    /\ [](state = CircuitClosed => streak < opts.FailureThreshold)
    /\ [][C2_TrippingStep]_vars

\* C2's case: two qualifying failures opened a breaker of threshold 2, and the
\* next call has just been rejected with ErrCircuitOpen.
C2_Witness ==
    /\ opts.FailureThreshold = 2
    /\ streak = 2
    /\ state = CircuitOpen
    /\ returned.err = ErrCircuitOpen
    /\ returned.inner = NotInvoked

\* The step admits caller p's call as the half-open trial, moving an Open
\* breaker to HalfOpen.
AdmittedAsTrial(p) ==
    /\ state' = CircuitHalfOpen
    /\ halfInFlight'
    /\ pc'[p] = "next"
    /\ trial'[p]
    /\ returned' = NoReturn

\* C3 as stated: a call checked (under the lock) while Open less than
\* OpenTimeout after the breaker opened is rejected with ErrCircuitOpen, and
\* one checked at or after OpenTimeout moves the breaker to HalfOpen and is
\* admitted as the trial; the time of the check is the clock's reading when
\* the check runs.
C3_ByTimeOfCheck ==
    [][\A p \in Callers :
          (BeforeCallStep(p) /\ state = CircuitOpen)
             => IF clock - openedAt >= opts.OpenTimeout
                THEN AdmittedAsTrial(p)
                ELSE RejectedWith(p, ErrCircuitOpen) /\ UNCHANGED cbVars]_vars

\* C3 amended: the same, with the time of a call's check being the reading
\* the call took of the clock before it acquired the lock (beforeCall's now).
C3_ByClockReading ==
    [][\A p \in Callers :
          (BeforeCallStep(p) /\ state = CircuitOpen)
             => IF now[p] - openedAt >= opts.OpenTimeout
                THEN AdmittedAsTrial(p)
                ELSE RejectedWith(p, ErrCircuitOpen) /\ UNCHANGED cbVars]_vars

\* C3's case: exactly OpenTimeout after the breaker opened, a call has moved
\* it to HalfOpen and is running as the trial.
C3_Witness ==
    /\ state = CircuitHalfOpen
    /\ Len(observed) >= 2
    /\ observed[Len(observed)] =
          [from |-> CircuitOpen, to |-> CircuitHalfOpen,
           holder |-> observed[Len(observed)].holder]
    /\ clock - openedAt = opts.OpenTimeout
    /\ \E p \in Callers : pc[p] = "next" /\ trial[p]

\* C4, the steps: a trial's success recorded in HalfOpen either brings the
\* counter to SuccessThreshold, and the breaker closes with both counters
\* reset, or adds one to it, and the breaker stays HalfOpen with no trial in
\* flight; the breaker leaves HalfOpen for Closed in no other step; a call
\* checked in HalfOpen with no trial in flight is admitted as the next trial
\* and leaves the counter as it is.
C4_ClosingStep ==
    /\ \A p \in Callers :
          /\ (AfterCallStep(p) /\ trial[p] /\ state = CircuitHalfOpen
                  /\ returned'.inner.err = NilErr)
                => IF halfSuccess + 1 = opts.SuccessThreshold
                   THEN state' = CircuitClosed /\ failures' = 0 /\ halfSuccess' = 0
                   ELSE /\ state' = CircuitHalfOpen
                        /\ halfSuccess' = halfSuccess + 1
                        /\ halfSuccess' < opts.SuccessThreshold
                        /\ ~halfInFlight'
          /\ (BeforeCallStep(p) /\ state = CircuitHalfOpen /\ ~halfInFlight)
                => AdmittedAsTrial(p) /\ halfSuccess' = halfSuccess
    /\ (state = CircuitHalfOpen /\ state' = CircuitClosed)
          => \E p \in Callers :
                /\ AfterCallStep(p)
                /\ returned'.inner.err = NilErr
                /\ halfSuccess + 1 = opts.SuccessThreshold

\* C4: in HalfOpen each successful trial adds one to the half-open success
\* counter, which persists across sequential trials; the breaker closes (both
\* counters reset) exactly when the counter reaches SuccessThreshold, and before
\* that stays HalfOpen and admits the next call as a new trial.
C4_ClosesAtSuccessThreshold == [][C4_ClosingStep]_vars

\* C4's case: with SuccessThreshold 2, a second successful trial has just
\* closed the breaker.
C4_Witness ==
    /\ opts.SuccessThreshold = 2
    /\ state = CircuitClosed
    /\ returned.err = NilErr
    /\ returned.inner.err = NilErr
    /\ Len(observed) >= 3
    /\ observed[Len(observed)].from = CircuitHalfOpen
    /\ observed[Len(observed)].to = CircuitClosed

\* C5 as stated: the qualifying failure of a call admitted as a half-open
\* trial leaves the breaker Open, with the failure counter, the half-open
\* success counter and the trial flag reset and the clock's reading as the new
\* open timestamp.
C5_TrialFailureReopens ==
    [][\A p \in Callers :
          (AfterCallStep(p) /\ trial[p] /\ ShouldTrip(returned'.inner.err))
             => /\ state' = CircuitOpen
                /\ failures' = 0
                /\ halfSuccess' = 0
                /\ ~halfInFlight'
                /\ openedAt' = clock]_vars

\* What does hold of C5: the same, for a trial whose failure is recorded while
\* the breaker is still HalfOpen (no call admitted while Closed, and no other
\* trial, has moved the breaker since the trial was admitted).
TrialFailureReopensInHalfOpen ==
    [][\A p \in Callers :
          (AfterCallStep(p) /\ trial[p] /\ state = CircuitHalfOpen
              /\ ShouldTrip(returned'.inner.err))
             => /\ state' = CircuitOpen
                /\ failures' = 0
                /\ halfSuccess' = 0
                /\ ~halfInFlight'
                /\ openedAt' = clock]_vars

\* C6: a call rejected with ErrCircuitHalfOpenBusy or ErrCircuitOpen does not
\* invoke the operation and leaves the breaker's state, failure counter,
\* half-open success counter, trial flag and open timestamp unchanged.
C6_RejectionChangesNothing ==
    [][\A p \in Callers :
          (BeforeCallStep(p) /\ returned'.caller = p
              /\ returned'.err \in {ErrCircuitHalfOpenBusy, ErrCircuitOpen})
             => /\ pc'[p] = "idle"
                /\ returned'.inner = NotInvoked
                /\ returned'.result = "nil"
                /\ state' = state
                /\ failures' = failures
                /\ halfSuccess' = halfSuccess
                /\ halfInFlight' = halfInFlight
                /\ openedAt' = openedAt
                /\ observed' = observed
                /\ streak' = streak]_vars

\* C6's case: a call has just been rejected with ErrCircuitHalfOpenBusy while
\* another caller's trial is in flight and one success is already counted.
C6_Witness ==
    /\ returned.err = ErrCircuitHalfOpenBusy
    /\ state = CircuitHalfOpen
    /\ halfInFlight
    /\ halfSuccess = 1
    /\ \E p \in Callers : p # returned.caller /\ pc[p] = "next" /\ trial[p]

\* C7: a call whose context is already cancelled on entry returns the
\* context's error, not ErrCircuitOpen, ErrCircuitHalfOpenBusy or
\* ErrRateLimitExceeded, does not invoke the operation, and leaves the breaker
\* (state, counters, trial flag, open timestamp, observer's log) and the bucket
\* (tokens, last refill time) unchanged, whatever state they are in.
C7_CancellationFirst ==
    [][returned'.entryCanceled
          => /\ returned'.err \in ContextErrors
             /\ returned'.result = "nil"
             /\ returned'.inner = NotInvoked
             /\ pc'[returned'.caller] = "idle"
             /\ UNCHANGED <<cbVars, observed, rlVars, admissions, mu, trial>>]_vars

\* C7's case: a call cancelled on entry has just returned from a breaker that
\* is Open with OpenTimeout elapsed, which would have admitted it as a trial.
C7_Witness ==
    /\ wrapped = "CircuitBreaker"
    /\ returned.entryCanceled
    /\ returned.err = Canceled
    /\ state = CircuitOpen
    /\ clock - openedAt >= opts.OpenTimeout

\* C7's other cases: the breaker HalfOpen with a trial in flight; the breaker
\* Closed; the limiter with an empty bucket.
C7_WitnessTrialInFlight ==
    /\ wrapped = "CircuitBreaker"
    /\ returned.entryCanceled
    /\ state = CircuitHalfOpen
    /\ halfInFlight

C7_WitnessClosed ==
    /\ wrapped = "CircuitBreaker"
    /\ returned.entryCanceled
    /\ state = CircuitClosed
    /\ failures > 0

C7_WitnessEmptyBucket ==
    /\ wrapped = "RateLimit"
    /\ returned.entryCanceled
    /\ returned.err = Canceled
    /\ FLess[tokens, FOne]
    /\ Len(admissions) > 0

\* C8, the steps: what the operation returned goes to the caller as it is; an
\* error ShouldTrip rejects leaves the failure counter, the state, the
\* half-open success counter and the open timestamp as they were; the failure
\* counter grows, and the breaker opens, only in a step that records an error
\* ShouldTrip accepts.
C8_TripStep ==
    /\ \A p \in Callers :
          AfterCallStep(p)
             => /\ returned'.caller = p
                /\ returned'.err = returned'.inner.err
                /\ returned'.result = returned'.inner.result
                /\ (returned'.inner.err # NilErr /\ ~ShouldTrip(returned'.inner.err))
                      => /\ failures' = failures
                         /\ state' = state
                         /\ halfSuccess' = halfSuccess
                         /\ openedAt' = openedAt
                         /\ observed' = observed
                         /\ streak' = streak
    /\ (failures' > failures \/ (state # CircuitOpen /\ state' = CircuitOpen))
          => \E p \in Callers :
                AfterCallStep(p) /\ ShouldTrip(returned'.inner.err)

\* C8: an error for which ShouldTrip returns false is returned unmodified, never
\* increments the failure counter, never opens a Closed breaker and never
\* reopens a HalfOpen one; only errors ShouldTrip accepts count toward
\* FailureThreshold.
C8_OnlyTrippingErrorsCount == [][C8_TripStep]_vars

\* C8's case: with a custom predicate, an error it rejects has just been
\* returned to its caller by a Closed breaker one failure short of its
\* threshold.
C8_Witness ==
    /\ opts.ShouldTrip = "custom"
    /\ returned.err = IgnoredErr
    /\ returned.inner.err = IgnoredErr
    /\ state = CircuitClosed
    /\ failures = opts.FailureThreshold - 1
    /\ failures > 0

\* C8's other case: a half-open trial has just returned an error the predicate
\* rejects, and the breaker is still HalfOpen.
C8_WitnessHalfOpen ==
    /\ opts.ShouldTrip = "custom"
    /\ returned.err = IgnoredErr
    /\ state = CircuitHalfOpen
    /\ ~halfInFlight
    /\ \A p \in Callers : pc[p] = "idle"

\* The changes of state the breaker makes.
AllowedTransitions ==
    { <<CircuitClosed, CircuitOpen>>, <<CircuitOpen, CircuitHalfOpen>>,
      <<CircuitHalfOpen, CircuitClosed>>, <<CircuitHalfOpen, CircuitOpen>> }

\* C9, the log: the pairs reported to the observer form a chain from Closed to
\* the breaker's present state, each of them an allowed change between two
\* different states, reported by a caller holding the lock.
C9_Chain ==
    /\ \A i \in 1..Len(observed) :
          /\ observed[i].from # observed[i].to
          /\ <<observed[i].from, observed[i].to>> \in AllowedTransitions
          /\ observed[i].holder \in Callers
          /\ observed[i].from = IF i = 1 THEN CircuitClosed ELSE observed[i - 1].to
    /\ state = IF observed = << >> THEN CircuitClosed
               ELSE observed[Len(observed)].to

\* C9, the steps: a step that changes the state reports exactly that change,
\* once, by the caller taking the step; a step that leaves the state as it is
\* reports nothing.
C9_ReportStep ==
    IF state' # state
    THEN \E p \in Callers :
            /\ BeforeCallStep(p) \/ AfterCallStep(p)
            /\ observed' = Append(observed,
                                  [from |-> state, to |-> state', holder |-> p])
    ELSE observed' = observed

\* C9: every change of state is reported to the observer exactly once, as
\* (from, to) with from different from to, under the lock; the reports are a
\* chain starting at Closed, each one of Closed->Open, Open->HalfOpen,
\* HalfOpen->Closed, HalfOpen->Open.
C9_ObserverSeesEveryChange == []C9_Chain /\ [][C9_ReportStep]_vars

\* C9's case: the observer has been told of each of the four changes, the
\* last one the closing of the breaker.
C9_Witness ==
    /\ {<<observed[i].from, observed[i].to>> : i \in 1..Len(observed)}
          = AllowedTransitions
    /\ state = CircuitClosed
    /\ Len(observed) >= 5

\* The first n decisions of allow() were all made with the clock still at its
\* reading at construction.
AllAtZero(n) == \A j \in 1..n : admissions[j].at = 0

\* d ticks of the clock are 1/r seconds, r the limiter's rate: d * r is one
\* second's ticks, compared exactly as natural numbers.
IsRefillPeriod(d) ==
    LET r == rlOpts.Rate
    IN  IF r.e < 0
        THEN NScale[r.m, d] = NShl[NFromInt[TicksPerSecond], -r.e]
        ELSE NShl[NScale[r.m, d], r.e] = NFromInt[TicksPerSecond]

\* C10, the log: of the calls made with zero elapsed time the first B are
\* admitted and the others rejected; when the (B+1)th has been rejected and the
\* clock has then advanced by 1/r seconds, the next call is admitted and the
\* one after it, at the same reading, is rejected.
C10_Bucket ==
    LET B == rlOpts.Burst
    IN  /\ \A i \in 1..Len(admissions) :
              AllAtZero(i) => (admissions[i].ok <=> i <= B)
        /\ (/\ Len(admissions) >= B + 2
            /\ AllAtZero(B + 1)
            /\ IsRefillPeriod(admissions[B + 2].at))
              => /\ admissions[B + 2].ok
                 /\ (/\ Len(admissions) >= B + 3
                     /\ admissions[B + 3].at = admissions[B + 2].at)
                       => ~admissions[B + 3].ok

\* C10, the steps: a call allow() rejects returns ErrRateLimitExceeded without
\* invoking the operation; a call it admits goes on to invoke the operation.
C10_AllowStep ==
    \A p \in Callers :
        (pc[p] = "allow" /\ pc'[p] # "allow")
           => /\ Len(admissions') = Len(admissions) + 1
              /\ IF admissions'[Len(admissions')].ok
                 THEN pc'[p] = "rlNext" /\ returned' = NoReturn
                 ELSE /\ pc'[p] = "idle"
                      /\ returned' = Reject(p, ErrRateLimitExceeded, FALSE)

\* C10: a bucket of capacity B admits B calls made with zero elapsed time after
\* construction and rejects the (B+1)th with ErrRateLimitExceeded without
\* invoking the operation; once the clock has advanced by 1/r seconds exactly
\* one further call is admitted and the one after it is rejected.
C10_BurstThenRefill == []C10_Bucket /\ [][C10_AllowStep]_vars

\* C11: after any sequence of admission checks, whatever readings the injected
\* clock returns, the bucket holds at least 0 and at most Burst tokens.
C11_TokenBounds ==
    /\ FLessEq[FZero, tokens]
    /\ FLessEq[tokens, FFromInt[rlOpts.Burst]]

\* What the bucket held, and when, before the i-th decision of allow(): the
\* full bucket at construction, or what the decision before left.
BucketBefore(i) ==
    IF i = 1
    THEN [at |-> 0, left |-> FFromInt[rlOpts.Burst]]
    ELSE [at |-> admissions[i - 1].at, left |-> admissions[i - 1].left]

\* The smaller of two numbers.
Min(a, b) == IF a <= b THEN a ELSE b

\* C12: of N consecutive admission checks made with no clock advance on a
\* bucket holding k whole tokens, exactly min(N, k) are admitted and the others
\* rejected; each admission takes its own token.
C12_AtomicAdmission ==
    /\ \A i \in 1..Len(admissions) : \A j \in i..Len(admissions) :
          (\A m \in i..j : admissions[m].at = BucketBefore(i).at)
             => Cardinality({m \in i..j : admissions[m].ok})
                   = Min(j - i + 1, FFloor[BucketBefore(i).left])
    /\ tokens = BucketBefore(Len(admissions) + 1).left

\* C12's case: three callers raced on a bucket holding two tokens; two of them
\* are running the operation and the third has been rejected.
C12_Witness ==
    /\ rlOpts.Burst = 2
    /\ calls = 3
    /\ Cardinality({p \in Callers : pc[p] = "rlNext"}) = 2
    /\ Len(admissions) = 3
    /\ \A m \in 1..3 : admissions[m].at = 0
    /\ returned.err = ErrRateLimitExceeded

\* Every invocation of the operation so far has failed (a success ends the
\* call, so only the last one has to be looked at).
AlwaysFailed == lastOutcome = NotInvoked \/ lastOutcome.err # NilErr

\* C13: with MaxAttempts = n >= 1 and a context that is never cancelled, an
\* operation that always fails is invoked exactly n times and Retry returns
\* nil and the error of the n-th invocation: the call does not end otherwise,
\* and never after fewer or more invocations.
C13_Exhaustion ==
    (wrapped = "Retry" /\ rOpts.MaxAttempts >= 1 /\ ctxErr = NilErr /\ AlwaysFailed)
       => /\ rpc # "panic"
          /\ invoked <= rOpts.MaxAttempts
          /\ rpc = "done"
                => /\ invoked = rOpts.MaxAttempts
                   /\ returned.result = "nil"
                   /\ returned.err = OpErr(rOpts.MaxAttempts)
                   /\ returned.err = lastOutcome.err

\* What does hold of C13: the same, unless computeDelay aborts the call.
ExhaustionUnlessPanic == rpc # "panic" => C13_Exhaustion

\* C13's case, when computeDelay does not abort: three failed invocations
\* and the error of the third returned.
ExhaustionReached ==
    /\ wrapped = "Retry"
    /\ rOpts.MaxAttempts = 3
    /\ ctxErr = NilErr
    /\ rpc = "done"
    /\ invoked = 3
    /\ returned.err = OpErr(3)

\* C14: when the k-th invocation (k <= MaxAttempts) is the first to succeed,
\* Retry returns that invocation's result with a nil error in the same step:
\* the operation has been invoked exactly k times, no timer is started and no
\* further attempt made.
C14_FirstSuccess ==
    /\ [](rpc = "done" => ~ENABLED NextRetry)
    /\ [][(rpc = "next" /\ rpc' # "next" /\ lastOutcome'.err = NilErr)
             => /\ rpc' = "done"
                /\ invoked <= rOpts.MaxAttempts
                /\ invoked' = invoked
                /\ attempt' = invoked - 1
                /\ lastOutcome'.result = OpResult(invoked)
                /\ returned'.result = lastOutcome'.result
                /\ returned'.err = NilErr
                /\ returned'.caller = RetryCaller
                /\ timer' = timer]_vars

\* C14's case: two failures, then the third and last allowed invocation
\* succeeded and its result has been returned.
C14_Witness ==
    /\ wrapped = "Retry"
    /\ rOpts.MaxAttempts = 3
    /\ rpc = "done"
    /\ invoked = 3
    /\ lastErr = OpErr(2)
    /\ returned.result = OpResult(3)
    /\ returned.err = NilErr

\* C15, the return: when the context was cancelled before the call, before an
\* attempt or during a backoff wait, Retry returns nil and the context's
\* error, not the operation's last error (also when it is the timer that ends
\* the wait); when it was cancelled while the operation was running and that
\* attempt failed with attempts left, the same.
C15_ReturnsCancellation ==
    (wrapped = "Retry" /\ rpc = "done" /\ ctxErr # NilErr /\ rOpts.MaxAttempts >= 1)
       => \/ /\ returned.err = ctxErr
             /\ returned.result = "nil"
          \/ /\ cancelPoint = "next"
             /\ returned.inner = lastOutcome
             /\ lastOutcome.err = NilErr \/ invoked = rOpts.MaxAttempts

\* C15: once the context is cancelled Retry starts no further attempt, and a
\* cancellation before an attempt or during a backoff wait makes Retry return
\* the context's error.
C15_Cancellation ==
    /\ []C15_ReturnsCancellation
    /\ [][invoked' # invoked => ctxErr = NilErr /\ ctxErr' = NilErr]_vars

\* C15's case: the context was cancelled during the backoff wait after a
\* failed attempt, the timer ended the wait, and the head of the loop returned
\* the context's error without a second attempt.
C15_Witness ==
    /\ wrapped = "Retry"
    /\ cancelPoint = "select"
    /\ rpc = "done"
    /\ invoked = 1
    /\ attempt = 1
    /\ lastErr = OpErr(1)
    /\ returned.err = Canceled

\* C15's other cases: the select took ctx.Done(); the context was cancelled
\* before the call.
C15_WitnessCtxDone ==
    /\ wrapped = "Retry"
    /\ cancelPoint = "select"
    /\ rpc = "done"
    /\ invoked = 2
    /\ attempt = 1
    /\ returned.err = Canceled

C15_WitnessBeforeCall ==
    /\ wrapped = "Retry"
    /\ cancelPoint = "idle"
    /\ rpc = "done"
    /\ invoked = 0
    /\ returned.err = Canceled

\* The width, in bytes, of the words that hold the claimed delays without
\* wrapping: initialDelay * 2^a for every a below MaxRetryAttempts + 1.
WideBytes == 2 * Int64Bytes

\* f(a) of the delay formula as a number: initialDelay for fixed backoff,
\* initialDelay * (a + 1) for linear and initialDelay * 2^a for exponential.
FormulaDelay(a, o) ==
    LET d == WExtend(o.InitialDelay, WideBytes)
    IN  CASE o.Backoff = BackoffLinear -> WMul(d, Word(a + 1, WideBytes))
          [] o.Backoff = BackoffExponential -> WMul(d, WBit(a, WideBytes))
          [] OTHER -> d

\* min(f(a), maxDelay) as a number.
ClaimedDelay(a, o) ==
    LET f == FormulaDelay(a, o)
        m == WExtend(o.MaxDelay, WideBytes)
    IN  IF WLess(m, f) THEN m ELSE f

\* A failed attempt, with attempts left, starts its backoff wait.
StartsWait == rpc = "next" /\ rpc' = "select"

\* C16: with jitter disabled, the delay waited after failed attempt a is
\* min(f(a), maxDelay), f(a) being initialDelay, initialDelay * (a + 1) or
\* initialDelay * 2^a for fixed, linear and exponential backoff.
C16_DelayFormula ==
    [][(StartsWait /\ ~rOpts.Jitter)
          => WExtend(timer', WideBytes) = ClaimedDelay(attempt, rOpts)]_vars

\* The formula holds for every attempt whose f(a) is a 64-bit number.
DelayFormulaUnlessOverflow ==
    [][(StartsWait /\ ~rOpts.Jitter
          /\ FormulaDelay(attempt, rOpts)
               = WExtend(backoffDelay(attempt, rOpts), WideBytes))
          => WExtend(timer', WideBytes) = ClaimedDelay(attempt, rOpts)]_vars

\* Waits the formula gives: 10ns * 2^1 = 20ns below the maximum of 25ns, and
\* 10ns * 3 = 30ns clamped to 25ns.
DelayFormulaReached ==
    /\ wrapped = "Retry"
    /\ rpc = "select"
    /\ ~rOpts.Jitter
    /\ \/ rOpts.Backoff = BackoffExponential /\ attempt = 1 /\ timer = Duration(20)
       \/ rOpts.Backoff = BackoffLinear /\ attempt = 2 /\ timer = Duration(25)
    /\ rOpts.InitialDelay = Duration(10)
    /\ rOpts.MaxDelay = Duration(25)

\* Timeout's handler returned from its select (not from the check at entry,
\* and not as the disabled policy).
TimeoutRaced ==
    /\ wrapped = "Timeout"
    /\ tOpts.Duration >= 0
    /\ tpc = "done"
    /\ ~returned.entryCanceled

\* The policy returned the outcome o of the operation, result and error.
ReturnedVerbatim(o) == returned.result = o.result /\ returned.err = o.err

\* C17 as stated, settled by the order of the two events: for a duration >= 0
\* and a context not cancelled at entry (nor, here, later), the operation is
\* started once against the child context; if the operation returned before
\* the deadline elapsed the policy returns its result and error, and if the
\* deadline elapsed first the policy returns a nil result with the
\* deadline-exceeded error.
C17_ByOrderOfEvents ==
    /\ invoked <= 1
    /\ (TimeoutRaced /\ ctxErr = NilErr) =>
          /\ gpc # "idle"
          /\ first = "operation" => ReturnedVerbatim(gout)
          /\ first = "deadline"
                => returned.result = "nil" /\ returned.err = DeadlineExceeded

\* The select of Timeout's handler is taken.
SelectStep == tpc = "select" /\ tpc' = "done"

\* C17, settled by what is ready when the select is taken: with only the
\* outcome ready the policy returns it verbatim, with only the child context
\* done it returns nil and the child context's error, with both ready it
\* returns either; with neither ready it waits.
C17_SelectStep ==
    /\ (SelectStep /\ done # <<>> /\ timeoutCtx.err = NilErr)
          => returned' = Forward(TimeoutCaller, gout)
    /\ (SelectStep /\ done = <<>>)
          => /\ timeoutCtx.err \in {DeadlineExceeded, Canceled}
             /\ returned' = TimeoutReturn(timeoutCtx.err)
    /\ (SelectStep /\ done # <<>> /\ timeoutCtx.err # NilErr)
          => returned' \in {Forward(TimeoutCaller, gout), TimeoutReturn(timeoutCtx.err)}
    /\ SelectStep => done \in {<<>>, <<gout>>}

\* The child context's error is the deadline's when its deadline passed
\* before the parent was done and before the handler returned, and the
\* parent's error when the parent was done first.
C17_ChildContext ==
    /\ timeoutCtx.err = DeadlineExceeded
          => \/ clock >= timeoutCtx.deadline /\ first \in {"deadline", "operation"}
             \/ ctxErr = DeadlineExceeded /\ first \in {"cancel", "operation"}
    /\ (timeoutCtx.err = Canceled /\ tpc = "select") => ctxErr = Canceled
    /\ (timeoutCtx.err # NilErr /\ tpc = "select" /\ first = "cancel")
          => timeoutCtx.err = ctxErr
    /\ tpc = "select" => timeoutCtx # NoContext /\ gpc # "idle"

\* C17: for a duration >= 0 and a context not cancelled at entry, the
\* operation is started once against a child context with a deadline, and the
\* policy returns by what is ready when its select is taken: the operation's
\* result and error verbatim, or a nil result with the child context's error
\* (deadline exceeded, or the parent's error when the parent was done first).
C17_ByReadiness ==
    /\ [](invoked <= 1)
    /\ []C17_ChildContext
    /\ []((tpc = "select" /\ done = <<>> /\ timeoutCtx.err = NilErr)
             => ~ENABLED TimeoutSelect)
    /\ [][C17_SelectStep]_vars

\* C17's case: the duration left unset, the operation returned before the
\* deadline elapsed and the policy returned its result.
C17_Witness ==
    /\ TimeoutRaced
    /\ tOpts.Duration = DefaultTimeoutDuration
    /\ first = "operation"
    /\ timeoutCtx.err = Canceled
    /\ ctxErr = NilErr
    /\ gout.err = NilErr
    /\ returned = Forward(TimeoutCaller, gout)

\* C17's other cases.  The deadline elapsed, the operation is still running.
C17_WitnessDeadline ==
    /\ TimeoutRaced
    /\ first = "deadline"
    /\ gpc = "next"
    /\ returned = TimeoutReturn(DeadlineExceeded)

\* The operation returned first and its outcome was sent; the deadline elapsed
\* before the select was taken, and the select took timeoutCtx.Done().
C17_WitnessBothReady ==
    /\ TimeoutRaced
    /\ first = "operation"
    /\ done = <<gout>>
    /\ gout.err = NilErr
    /\ ctxErr = NilErr
    /\ returned = TimeoutReturn(DeadlineExceeded)

\* The handler is waiting in its select and the child context is done: its
\* deadline elapsed or the parent was cancelled.
DeadlinePassedWaiting == tpc = "select" /\ timeoutCtx.err # NilErr

\* C18: once the child context's deadline elapses, or the parent is cancelled,
\* Timeout's handler eventually returns, whether or not the wrapped operation
\* ever completes (nothing is assumed of its goroutine); what it returned is
\* final: the abandoned operation's later outcome is never returned.
C18_NeverHeldPastDeadline ==
    /\ DeadlinePassedWaiting ~> tpc = "done"
    /\ []((tpc = "select" /\ (ctxErr # NilErr \/ first = "deadline"))
             => DeadlinePassedWaiting)
    /\ [][tpc = "done" => tpc' = "done" /\ returned' = returned]_vars

\* C18's case: the deadline elapsed while the operation was running and the
\* handler returned deadline-exceeded; the abandoned operation then completed
\* and its goroutine delivered an outcome that nobody receives.
C18_Witness ==
    /\ TimeoutRaced
    /\ first = "deadline"
    /\ returned = TimeoutReturn(DeadlineExceeded)
    /\ gpc = "exit"
    /\ gout.err = NilErr
    /\ done = <<gout>>

\* C19, the states: once the loop is over h is the list's first policy around
\* the second around ... around the base handler; the handlers being executed
\* are the first policies of the list, in list order, each having called its
\* next, with the base handler below the last policy only; the policies
\* entered so far are a prefix of the list; the base handler is invoked only
\* after every policy was entered; with no policies the base handler is
\* invoked once and its outcome is what Execute returns.
C19_Order ==
    wrapped = "Execute" =>
       /\ epc \in {"call", "done"} => execH = policies
       /\ \A d \in 1..Len(stack) :
             /\ stack[d].policy = IF d <= Len(policies) THEN policies[d]
                                  ELSE BaseHandler
             /\ d < Len(stack) => stack[d].calls >= 1
       /\ Len(stack) <= Len(policies) + 1
       /\ entered = SubSeq(policies, 1, Len(entered))
       /\ invoked > 0 => entered = policies
       /\ (epc \in {"call", "done"} /\ policies # <<>>) => entered # <<>>
       /\ (epc = "done" /\ policies = <<>>)
             => /\ invoked = 1
                /\ lastOutcome \in OpOutcomes(1)
                /\ returned = Forward(ExecuteCaller, lastOutcome)

\* C19, the steps: the composed handler is called once, by Execute, when the
\* loop is over; what it returns is what Execute returns.
C19_CalledOnce ==
    /\ (stack = <<>> /\ stack' # <<>>) => epc = "loop" /\ epc' = "call" /\ execI = 0
    /\ epc \in {"call", "done"} => epc' \in {"call", "done"}
    /\ (epc = "call" /\ epc' = "done")
          => /\ stack = <<>>
             /\ returned'.result = pending.result
             /\ returned'.err = pending.err

\* C19: for a list of n >= 0 policies Execute calls the composed handler
\* exactly once; policies[0] is the outermost wrapper and policies[n-1] the
\* innermost, so the policies are entered in list order and the base handler
\* is reached only if every policy delegates; with n = 0 Execute returns the
\* base handler's own result and error.
C19_CompositionOrder == []C19_Order /\ [][C19_CalledOnce]_vars

\* C19's case: three policies, each entered in list order, the base handler
\* reached, and its outcome returned through all of them.
C19_Witness ==
    /\ wrapped = "Execute"
    /\ Len(policies) = MaxPolicies
    /\ policies[1] = "policy 2"
    /\ epc = "done"
    /\ entered = policies
    /\ invoked = 1
    /\ returned = Forward(ExecuteCaller, lastOutcome)

\* C19's other cases: no policies; a policy that does not delegate.
C19_WitnessNoPolicies ==
    /\ wrapped = "Execute"
    /\ policies = <<>>
    /\ epc = "done"
    /\ returned.result = OpResult(1)

C19_WitnessRejected ==
    /\ wrapped = "Execute"
    /\ Len(policies) = MaxPolicies
    /\ epc = "done"
    /\ Len(entered) = 2
    /\ invoked = 0
    /\ returned.err = PolicyErr(policies[2])

\* The errors a policy returns by itself, with a nil result.
OwnErrors ==
    CASE wrapped = "CircuitBreaker" ->
            {ErrCircuitOpen, ErrCircuitHalfOpenBusy} \cup ContextErrors
      [] wrapped = "RateLimit" -> {ErrRateLimitExceeded} \cup ContextErrors
      [] wrapped = "Retry" -> ContextErrors
      [] wrapped = "Timeout" -> ContextErrors
      [] OTHER -> {}

\* The step returned to a caller.
Returns == returned.caller # "none"

\* What was returned is the policy's own error with a nil result.
ReturnsOwnError == returned.result = "nil" /\ returned.err \in OwnErrors

\* What was returned is the (result, error) pair an invocation of next
\* returned, unchanged.
ReturnsInnerOutcome ==
    /\ returned.inner # NotInvoked
    /\ returned.result = returned.inner.result
    /\ returned.err = returned.inner.err

\* The call whose recorded failure opens the breaker returns the operation's
\* error.
TrippingCallReturnsItsError ==
    (wrapped = "CircuitBreaker" /\ state # CircuitOpen /\ state' = CircuitOpen)
       => /\ returned'.caller \in Callers
          /\ returned'.inner \in Outcomes
          /\ returned'.err = returned'.inner.err
          /\ returned'.result = returned'.inner.result
          /\ returned'.err # NilErr

\* Retry's return after a failed attempt with none left carries the last
\* attempt's outcome.
RetryExhausted ==
    /\ wrapped = "Retry"
    /\ rpc = "done"
    /\ returned.err \notin {NilErr} \cup ContextErrors

\* C20: every policy (Retry, Timeout, CircuitBreaker, RateLimit) returns its
\* own sentinel or cancellation error with a nil result, or the (result,
\* error) pair produced by an invocation of the inner layer, unchanged; the
\* call whose failure trips the breaker returns the operation's error, and
\* Retry's final failure is the last attempt's outcome.
C20_OutcomePropagation ==
    /\ [](Returns => ReturnsOwnError \/ ReturnsInnerOutcome)
    /\ [](RetryExhausted => returned.inner = lastOutcome /\ ReturnsInnerOutcome)
    /\ [][TrippingCallReturnsItsError]_vars

\* Retry returned after its last attempt failed: nil, lastErr.
RetryDroppedResult ==
    /\ RetryExhausted
    /\ returned.inner = lastOutcome
    /\ returned.result = "nil"
    /\ returned.err = lastOutcome.err

\* Retry returned without a single pass of its loop: MaxAttempts is negative.
RetryNeverLooped ==
    /\ wrapped = "Retry"
    /\ rOpts.MaxAttempts < 0
    /\ rpc = "done"
    /\ returned.result = "nil"
    /\ returned.err = lastErr

\* The other three policies propagate as claimed, and so does Retry but for
\* the result of its last failed attempt (and the return of a loop that never
\* ran): there it returns the attempt's error and a nil result.
PropagationButForLastResult ==
    /\ [](Returns => \/ ReturnsOwnError
                     \/ ReturnsInnerOutcome
                     \/ RetryDroppedResult
                     \/ RetryNeverLooped)
    /\ [](RetryExhausted => RetryDroppedResult)
    /\ [][TrippingCallReturnsItsError]_vars

\* The propagation reached for each policy: the breaker's tripping call, an
\* admitted call of the rate limiter, a successful retry, a timeout whose
\* operation returned a result together with an error.
PropagationReachedCB ==
    /\ wrapped = "CircuitBreaker"
    /\ state = CircuitOpen
    /\ Returns
    /\ returned.err = TripErr
    /\ ReturnsInnerOutcome

PropagationReachedRL ==
    /\ wrapped = "RateLimit"
    /\ Returns
    /\ returned.err = IgnoredErr
    /\ ReturnsInnerOutcome

PropagationReachedTimeout ==
    /\ TimeoutRaced
    /\ returned.result = OpResult(1)
    /\ returned.err = OpErr(1)
    /\ ReturnsInnerOutcome

\* Retry's last attempt returned a result together with its error, and Retry
\* returned the error without the result.
LastResultDropped ==
    /\ RetryDroppedResult
    /\ rOpts.MaxAttempts = 1
    /\ lastOutcome.result = OpResult(1)
    /\ lastOutcome.err = OpErr(1)

\* C21: whatever RetryOptions the caller supplies (MaxAttempts zero, positive
\* or negative), the effective MaxAttempts is at least 1: a call with a
\* context that is never cancelled invokes the operation at least once, and
\* Retry never returns a nil result with a nil error without having invoked it.
C21_Normalized ==
    wrapped = "Retry" =>
       /\ rOpts.MaxAttempts >= 1
       /\ (rpc = "done" /\ ctxErr = NilErr) => invoked >= 1
       /\ (rpc = "done" /\ returned.result = "nil" /\ returned.err = NilErr)
             => invoked >= 1

\* The same for the options applyDefaults does normalize: MaxAttempts zero
\* or positive.
NormalizedUnlessNegative ==
    (wrapped = "Retry" /\ rOpts.MaxAttempts >= 0) => C21_Normalized

\* MaxAttempts left at zero: the default of 3 attempts was made.
NormalizedReached ==
    /\ wrapped = "Retry"
    /\ rOpts.MaxAttempts = DefaultMaxAttempts
    /\ rpc = "done"
    /\ ctxErr = NilErr
    /\ invoked = DefaultMaxAttempts
    /\ returned.err = OpErr(DefaultMaxAttempts)

\* The callers executing the wrapped operation.
InOperation == {p \in Callers : pc[p] \in {"next", "rlNext"}}

\* C22: in the circuit breaker and the rate limiter no caller holds the
\* policy's lock while it executes the wrapped operation: the lock is free
\* outside the admission check and the recording of the outcome, so a caller
\* in the operation blocks neither the admission check of another caller nor
\* the recording of its own or another caller's outcome.
C22_LockScope ==
    /\ mu = NoOne
    /\ \A p \in InOperation : mu # p
    /\ \A p \in InOperation : \A q \in Callers :
          /\ pc[q] = "beforeCall" => ENABLED CBBeforeCall(q)
          /\ pc[q] = "allow" => ENABLED RLAllow(q)
          /\ pc[q] = "next" => ENABLED CBAfterCall(q)

\* C22's case: two operations admitted by one circuit breaker are in flight
\* at the same time, and a third caller then passes its admission check.
C22_Witness ==
    /\ wrapped = "CircuitBreaker"
    /\ Cardinality(InOperation) = 3
    /\ state = CircuitClosed

\* The same through one rate limiter.
C22_WitnessRateLimit ==
    /\ wrapped = "RateLimit"
    /\ Cardinality(InOperation) >= 2

\* C23: for every attempt a in 0..MaxAttempts-2, every backoff kind and either
\* jitter setting, computeDelay, with its int64 arithmetic wrapping modulo
\* 2^64, completes without aborting (the range delay/2 given to rand.Int63n
\* is positive) and the delay it returns lies in [0, MaxDelay].
C23_DelayBounds ==
    wrapped = "Retry" =>
       /\ rpc # "panic"
       /\ rpc = "select"
             => /\ ~IsNeg(timer)
                /\ ~WLess(rOpts.MaxDelay, timer)

\* Of the claimed bounds the upper one holds: a delay is never above MaxDelay.
DelayNeverAboveMaxDelay ==
    (wrapped = "Retry" /\ rpc = "select") => ~WLess(rOpts.MaxDelay, timer)

\* A delay within the bounds, with jitter: 10ns fixed, plus 3ns of jitter.
JitteredDelayReached ==
    /\ wrapped = "Retry"
    /\ rpc = "select"
    /\ rOpts.Jitter
    /\ rOpts.Backoff = BackoffFixed
    /\ timer = Duration(13)

\* The computation aborted: rand.Int63n was given a range that is not
\* positive.
DelayPanicReached ==
    /\ wrapped = "Retry"
    /\ rpc = "panic"
    /\ attempt = 0
    /\ rOpts.InitialDelay = Duration(1)

\* A negative delay: the product wrapped.
NegativeDelayReached ==
    /\ wrapped = "Retry"
    /\ rpc = "select"
    /\ ~rOpts.Jitter
    /\ IsNeg(timer)

\* The trial flag, the half-open success counter and the state.
HalfOpenBookkeeping == <<halfInFlight, halfSuccess, state>>

\* C24: while the breaker is HalfOpen, the trial flag, the half-open success
\* counter and the transitions HalfOpen -> Closed and HalfOpen -> Open change
\* only when a call admitted as a half-open trial records its outcome (the
\* flag is set by the admission of the trial); the late completion of a call
\* admitted while the breaker was Closed changes none of them.
C24_OnlyTrialsDriveHalfOpen ==
    [][(wrapped = "CircuitBreaker" /\ state = CircuitHalfOpen) =>
          /\ \A p \in Callers :
                (AfterCallStep(p) /\ ~trial[p])
                   => HalfOpenBookkeeping' = HalfOpenBookkeeping
          /\ HalfOpenBookkeeping' # HalfOpenBookkeeping
                => \E p \in Callers :
                      \/ AfterCallStep(p) /\ trial[p]
                      \/ /\ BeforeCallStep(p)
                         /\ trial'[p]
                         /\ halfInFlight'
                         /\ halfSuccess' = halfSuccess
                         /\ state' = state]_vars

\* Every change of the three in HalfOpen is made by the admission of a trial
\* or by some call recording its outcome, trial or not.
HalfOpenDrivenByCalls ==
    [][(wrapped = "CircuitBreaker" /\ state = CircuitHalfOpen
          /\ HalfOpenBookkeeping' # HalfOpenBookkeeping)
          => \E p \in Callers :
                \/ AfterCallStep(p)
                \/ BeforeCallStep(p) /\ trial'[p] /\ halfInFlight'
                     /\ halfSuccess' = halfSuccess /\ state' = state]_vars

\* A call admitted while Closed has returned while the breaker was HalfOpen
\* with a trial in flight, and its success closed the breaker: the trial is
\* still running.
LateCompletionClosedBreaker ==
    /\ wrapped = "CircuitBreaker"
    /\ state = CircuitClosed
    /\ Len(observed) = 3
    /\ TrialsInFlight # {}
    /\ returned.caller \in Callers \ TrialsInFlight
    /\ returned.err = NilErr

\* C25: in every reachable state (the thresholds being at least 1) the
\* trial-in-flight flag is set only in HalfOpen; the failure counter is
\* non-zero only in Closed and is below FailureThreshold; the half-open
\* success counter is non-zero only in HalfOpen and is below SuccessThreshold.
C25_Bookkeeping ==
    wrapped = "CircuitBreaker" =>
       /\ opts.FailureThreshold >= 1
       /\ opts.SuccessThreshold >= 1
       /\ halfInFlight => state = CircuitHalfOpen
       /\ failures # 0 => state = CircuitClosed
       /\ failures >= 0 /\ failures < opts.FailureThreshold
       /\ halfSuccess # 0 => state = CircuitHalfOpen
       /\ halfSuccess >= 0 /\ halfSuccess < opts.SuccessThreshold

\* C25's case: the breaker has opened with a failure counted, has become
\* HalfOpen, a trial has succeeded below the threshold and the next is running.
C25_Witness ==
    /\ wrapped = "CircuitBreaker"
    /\ state = CircuitHalfOpen
    /\ opts.FailureThreshold = 2
    /\ halfSuccess = 1
    /\ halfInFlight
    /\ failures = 0

\* The failure counter at work: one failure counted in Closed, below the
\* threshold of 2.
C25_WitnessClosed ==
    /\ wrapped = "CircuitBreaker"
    /\ state = CircuitClosed
    /\ failures = 1
    /\ Len(observed) >= 3

\* A trial ends with an error ShouldTrip rejects, the breaker being HalfOpen.
TrialEndsNotQualifying(p) ==
    /\ AfterCallStep(p)
    /\ trial[p]
    /\ state = CircuitHalfOpen
    /\ returned'.err # NilErr
    /\ ~ShouldTrip(returned'.err)

\* C26, the steps: a trial recorded in HalfOpen clears the trial-in-flight
\* flag whatever its outcome; one that ends with a non-qualifying error leaves
\* the breaker HalfOpen with its counters as they were; a call checked in
\* HalfOpen with the flag clear is admitted as a trial.
C26_TrialSteps ==
    \A p \in Callers :
       /\ (AfterCallStep(p) /\ trial[p] /\ state = CircuitHalfOpen) => ~halfInFlight'
       /\ TrialEndsNotQualifying(p)
             => /\ state' = CircuitHalfOpen
                /\ halfSuccess' = halfSuccess
                /\ failures' = failures
                /\ openedAt' = openedAt
       /\ (BeforeCallStep(p) /\ state = CircuitHalfOpen /\ ~halfInFlight)
             => /\ pc'[p] = "next"
                /\ trial'[p]
                /\ halfInFlight'
                /\ returned' = NoReturn

\* C26: if every admitted operation eventually returns, a set trial-in-flight
\* flag is eventually cleared, whether the trial ends in success, in a
\* qualifying failure or in a non-qualifying one, so callers are not rejected
\* with half-open-busy forever; after a trial that ends with a non-qualifying
\* error the breaker stays HalfOpen and admits the next call as a trial.
C26_NoPermanentBusy ==
    /\ (wrapped = "CircuitBreaker" /\ halfInFlight) ~> ~halfInFlight
    /\ [](halfInFlight => \E p \in Callers : pc[p] = "next")
    /\ [][C26_TrialSteps]_vars

\* C26's case: the first call opened the breaker, the second was admitted as
\* the trial and has just ended with an error ShouldTrip rejects: the flag is
\* clear and the breaker is still HalfOpen.
C26_Witness ==
    /\ wrapped = "CircuitBreaker"
    /\ opts.ShouldTrip = "custom"
    /\ state = CircuitHalfOpen
    /\ Len(observed) = 2
    /\ calls = 2
    /\ InOperation = {}
    /\ returned.err = IgnoredErr
    /\ ~halfInFlight

\* The next call has then been admitted as a trial.
C26_WitnessNextTrial ==
    /\ wrapped = "CircuitBreaker"
    /\ opts.ShouldTrip = "custom"
    /\ state = CircuitHalfOpen
    /\ Len(observed) = 2
    /\ calls = 3
    /\ Cardinality(TrialsInFlight) = 1
    /\ Cardinality(InOperation) = 1
    /\ \A p \in Callers : pc[p] \in {"idle", "next"}
    /\ halfSuccess = 0

\* The calls admitted among the decisions i..j of the log.
AdmittedIn(i, j) == Cardinality({m \in i..j : admissions[m].ok})

\* n calls are at most burst + rate * T, T the seconds in d ticks of the clock:
\* (n - burst) * one second's ticks <= rate * d, compared exactly as natural
\* numbers.
WithinBound(n, d) ==
    LET r == rlOpts.Rate
        over == NScale[NFromInt[TicksPerSecond], n - rlOpts.Burst]
    IN  \/ n <= rlOpts.Burst
        \/ IF r.e < 0
           THEN ~NLess[NScale[r.m, d], NShl[over, -r.e]]
           ELSE ~NLess[NShl[NScale[r.m, d], r.e], over]

\* What a rejected call leaves in the bucket is no less than what the bucket
\* held before plus rate * T for the d ticks since, up to the capacity:
\* left * ticks >= before * ticks + rate * d, compared exactly as natural
\* numbers over the smallest of the three exponents.
KeepsRefill(before, left, d) ==
    LET r == rlOpts.Rate
        base == Min(Min(before.e, left.e), r.e)
        had == NScale[NShl[before.m, before.e - base], TicksPerSecond]
        earned == NScale[NShl[r.m, r.e - base], d]
        kept == NScale[NShl[left.m, left.e - base], TicksPerSecond]
    IN  \/ left = FFromInt[rlOpts.Burst]
        \/ ~NLess[kept, NAdd[had, earned]]

\* C27, the bound: the calls admitted among the decisions i..j are at most
\* burst + rate * T, T the clock time from decision i to decision j.
C27_AdmittedWithinBound ==
    \A i \in 1..Len(admissions) : \A j \in i..Len(admissions) :
        WithinBound(AdmittedIn(i, j), admissions[j].at - admissions[i].at)

\* C27, the rejections: a rejected call leaves in the bucket all that had
\* accrued when it was made.
C27_RejectionKeepsRefill ==
    \A i \in 1..Len(admissions) :
        ~admissions[i].ok
           => KeepsRefill(BucketBefore(i).left, admissions[i].left,
                          admissions[i].at - BucketBefore(i).at)

\* C27: with a non-decreasing clock, the calls one limiter admits over any
\* interval of clock time of length T are at most burst + rate * T; a rejected
\* call loses no accumulated refill: the bucket keeps all it had accrued, and
\* the fraction of a token earned before a rejection counts toward the next
\* admission.
C27_ThroughputBound ==
    /\ C27_AdmittedWithinBound
    /\ C27_RejectionKeepsRefill
    /\ \A i \in 1..Len(admissions) :
          i > 1 => admissions[i].at >= admissions[i - 1].at

\* The case of C28: Retry(maxAttempts = n) around CircuitBreaker(failureThreshold
\* = f < n), a context that is never cancelled, an operation that has failed
\* with an error ShouldTrip accepts each time it was invoked, and a call whose
\* time, backoff included, is shorter than openTimeout.
RetryAroundBreakerCase ==
    /\ wrapped = RetryAroundCircuitBreaker
    /\ opts.FailureThreshold < rOpts.MaxAttempts
    /\ ctxErr = NilErr
    /\ \A e \in opErrs : ShouldTrip(e)
    /\ clock < opts.OpenTimeout

\* The call has ended as C28 says: the operation invoked exactly f times in n
\* attempts, and Retry returned nil and the circuit-open error.
EndsOnCircuitOpen ==
    /\ rpc = "done"
    /\ invoked = opts.FailureThreshold
    /\ calls = rOpts.MaxAttempts
    /\ returned.caller = RetryCaller
    /\ returned.result = "nil"
    /\ returned.err = ErrCircuitOpen
    /\ returned.inner = [result |-> "nil", err |-> ErrCircuitOpen]

\* C28: with Retry(maxAttempts = n) outermost around CircuitBreaker(
\* failureThreshold = f < n), an operation that always fails with a qualifying
\* error and a total backoff shorter than openTimeout, the operation is invoked
\* exactly f times, each later attempt is rejected by the breaker without
\* invoking it, and Retry returns the circuit-open error after n attempts in
\* total: the call never invokes the operation more than f times, and it ends
\* only by that return.
C28_RetryAroundBreaker ==
    RetryAroundBreakerCase =>
        /\ invoked <= opts.FailureThreshold
        /\ calls > opts.FailureThreshold =>
              (invoked = opts.FailureThreshold /\ state = CircuitOpen)
        /\ rpc \in {"done", "panic"} => EndsOnCircuitOpen

\* What holds of C28 in the code: the same, for every call that computeDelay
\* does not abort.
RetryAroundBreakerUnlessPanic ==
    (RetryAroundBreakerCase /\ rpc # "panic") =>
        /\ invoked <= opts.FailureThreshold
        /\ calls > opts.FailureThreshold =>
              (invoked = opts.FailureThreshold /\ state = CircuitOpen)
        /\ rpc = "done" => EndsOnCircuitOpen

\* A call of C28's case that ended as claimed: f = 2 invocations, then two
\* attempts the breaker rejected, waited for with jittered delays.
RetryAroundBreakerReached ==
    /\ RetryAroundBreakerCase
    /\ EndsOnCircuitOpen
    /\ opts.FailureThreshold = 2
    /\ rOpts.MaxAttempts = 4
    /\ rOpts.Jitter
    /\ opErrs = {TripErr}

\* A call of C28's case aborted in computeDelay after the first failed attempt,
\* the breaker (f = 2) still closed.
RetryAroundBreakerPanicReached ==
    /\ RetryAroundBreakerCase
    /\ rpc = "panic"
    /\ invoked = 1
    /\ opts.FailureThreshold = 2
    /\ state = CircuitClosed
    /\ opErrs = {TripErr}

\* The handler has returned because timeoutCtx was done (the deadline passed
\* or the parent was cancelled), without receiving from the channel.
ReturnedOnDone ==
    /\ tpc = "done"
    /\ tOpts.Duration >= 0
    /\ returned.caller = TimeoutCaller
    /\ returned.inner = NotInvoked
    /\ ~returned.entryCanceled

\* C29: the background task started by the Timeout policy can always hand over
\* its outcome and finish once the wrapped operation returns, even when the
\* policy has already returned because the deadline won: the send is never
\* blocked and is eventually made; the channel never holds more than its one
\* value; a call's only send is the task's last step, made into the empty
\* channel, and the task then stays finished.
C29_NeverBlocksOnDelivery ==
    /\ [](gpc = "send" => ENABLED GoSend)
    /\ (gpc = "send") ~> (gpc = "exit")
    /\ [](Len(done) <= DoneCap)
    /\ [][Len(done') > Len(done) =>
             (gpc = "send" /\ gpc' = "exit" /\ done = <<>> /\ done' = <<gout>>)]_vars
    /\ [][gpc = "exit" => gpc' = "exit"]_vars

\* C29's case: the handler returned deadline-exceeded while the operation was
\* running; the operation then failed and its task delivered the outcome,
\* which nobody receives, and finished.
C29_Witness ==
    /\ ReturnedOnDone
    /\ first = "deadline"
    /\ returned.err = DeadlineExceeded
    /\ gpc = "exit"
    /\ gout.err \notin {NilErr, DeadlineExceeded, Canceled}
    /\ done = <<gout>>

\* The same call one step earlier: the handler has returned and the task is
\* about to send into the empty channel.
C29_WitnessAboutToSend ==
    /\ ReturnedOnDone
    /\ first = "deadline"
    /\ gpc = "send"
    /\ done = <<>>

====
